---- MODULE Spec2Model ----
(***************************************************************************)
(* A model of the manual-approval custom job: the command entry point      *)
(* (cmd.run), Config.Run and the three handlers init, callback and cancel  *)
(* of internal/manual_approval/execute.go, with the HTTP helper post, the  *)
(* status/output writers and the input value coercion.                     *)
(*                                                                         *)
(* One behaviour of Spec is one process invocation; SpecDebug lets a       *)
(* second one follow with another value of DEBUG.  Go strings are TLA+     *)
(* strings;                                                                *)
(* a Go error is the string of its message, the nil error is Nil.  A JSON  *)
(* text is represented by the value it parses to (a tagged record, see     *)
(* JStr .. JObj); a text that does not parse is a value tagged "invalid".  *)
(***************************************************************************)
EXTENDS Integers, Sequences, FiniteSets, TLC

VARIABLES
    args,        \* positional command-line arguments handed to cmd.run
    handler,     \* Config.Handler, the value of the --handler flag
    env,         \* the process environment: variable name -> text ("" = unset)
    PAYLOAD,     \* the PAYLOAD environment variable, as the JSON value of its text
    pc,          \* position of the invocation in the code
    ret,         \* the error returned by cmd.run (Running until it returns)
    body,        \* requestBody handed to Config.post
    resp,        \* the response text returned by Config.post
    err,         \* the error returned by Config.post
    modifiedInputsParamForPost, \* callback: the inputs list after coercion
    outputsMap,  \* callback: input name -> value in its original type
    jobStatus,   \* callback: the status mapped by processApprovalStatus
    out,         \* the lines printed through Config.Output, in order
    requests,    \* the requests handed to Config.Client.Do, in order
    answers,     \* what Config.Client.Do returned for them, in order
    statusFile,  \* the content of the file named by CLOUDBEES_STATUS
    outputs,     \* the files of the CLOUDBEES_OUTPUTS directory: name -> content
    writes,      \* the files written by this invocation, in order: [file, content]
    events,      \* every print, request and file write of the invocation, in order
    ctx,         \* the context cmd.run hands to Config.Run: "active" or "cancelled"
    interruptedInFlight, \* the context was cancelled while Client.Do had not returned
    diag,        \* the diagnostic lines debugf printed to the standard output, in order
    ios,         \* what the calls of os.WriteFile returned, in order
    first        \* what an earlier invocation on the same inputs did (NoRun if none)

vars == <<args, handler, env, PAYLOAD, pc, ret, body, resp, err,
          modifiedInputsParamForPost, outputsMap, jobStatus,
          out, requests, answers, statusFile, outputs, writes, events,
          ctx, interruptedInFlight, diag, ios, first>>

-----------------------------------------------------------------------------
(* Bounds of the model *)

\* the longest inputs list of a callback payload
MaxInputs == 2

-----------------------------------------------------------------------------
(* Values *)

Nil == "<nil>"
Running == "<running>"
\* abnormal termination of the process by a failed type assertion
Panic == "<panic>"
NoFile == [absent |-> TRUE]

JStr(s) == [t |-> "string", s |-> s]
JNum(n) == [t |-> "number", n |-> n]
JBool(b) == [t |-> "bool", b |-> b]
JNull == [t |-> "null"]
JArr(a) == [t |-> "array", a |-> a]
JObj(o) == [t |-> "object", o |-> o]
JInvalid == [t |-> "invalid"]

\* Go's m[k] on a map[string]interface{}: the nil interface for an absent key
Lookup(m, k) == IF k \in DOMAIN m THEN m[k] ELSE JNull

IsString(v) == v.t = "string"

-----------------------------------------------------------------------------
(* Text helpers *)

Digit(d) ==
    CASE d = 0 -> "0" [] d = 1 -> "1" [] d = 2 -> "2" [] d = 3 -> "3"
      [] d = 4 -> "4" [] d = 5 -> "5" [] d = 6 -> "6" [] d = 7 -> "7"
      [] d = 8 -> "8" [] d = 9 -> "9"

RECURSIVE Digits(_)
Digits(n) == IF n < 10 THEN Digit(n) ELSE Digits(n \div 10) \o Digit(n % 10)

\* fmt's %d of an int
FormatInt(n) == IF n < 0 THEN "-" \o Digits(0 - n) ELSE Digits(n)

RECURSIVE Join(_, _)
Join(elems, sep) ==
    IF Len(elems) = 0 THEN ""
    ELSE IF Len(elems) = 1 THEN elems[1]
    ELSE elems[1] \o sep \o Join(Tail(elems), sep)

RECURSIVE ReplaceNewlines(_)
ReplaceNewlines(s) ==
    IF Len(s) = 0 THEN ""
    ELSE (IF Head(s) = "\n" THEN "<br/>" ELSE Head(s)) \o ReplaceNewlines(Tail(s))

RECURSIVE TrimRightSlash(_)
TrimRightSlash(s) ==
    IF Len(s) > 0 /\ SubSeq(s, Len(s), Len(s)) = "/"
    THEN TrimRightSlash(SubSeq(s, 1, Len(s) - 1))
    ELSE s


-----------------------------------------------------------------------------
(* The inputs an invocation is started with *)

EnvNames ==
    {"URL", "API_TOKEN", "CLOUDBEES_STATUS", "CLOUDBEES_OUTPUTS", "APPROVERS",
     "INSTRUCTIONS", "DISALLOW_LAUNCHED_BY_USER", "NOTIFY_ALL_ELIGIBLE_USERS",
     "INPUTS", "CANCELLATION_REASON", "DEBUG"}

Getenv(name) == env[name]

EmptyEnv == [n \in EnvNames |-> ""]

\* unset, a base URL (with a trailing slash), a text url.Parse rejects
UrlValues == {"", "http://test.com/", "://x"}
TokenValues == {"", "test"}
StatusFileValues == {"", "/tmp/test-status-out"}
OutputsDirValues == {"", "/tmp/test-outputs"}

CommonEnvs ==
    {[EmptyEnv EXCEPT !["URL"] = u, !["API_TOKEN"] = t, !["CLOUDBEES_STATUS"] = s]
        : u \in UrlValues, t \in TokenValues, s \in StatusFileValues}

ReasonValues == {"", "CANCELLED", "TIMED_OUT", "cancelled"}

HandlerValues == {"init", "callback", "cancel", "", "something wrong"}

\* the record init leaves in the status file when it succeeds
PendingRecord ==
    [status |-> "PENDING_APPROVAL", message |-> "Waiting for approval from approvers"]

-----------------------------------------------------------------------------
(* The remote API: what Config.Client.Do can answer *)

ApproversBody ==
    "{\"approvers\":[{\"userName\":\"u1\",\"userId\":\"1\",\"email\":\"a@b\"},{\"userName\":\"u2\"}]}"

Response(code, status, text) ==
    [neterr |-> "", code |-> code, status |-> status, body |-> text]

NetworkFailure == [neterr |-> "dial tcp: connection refused", code |-> 0,
                   status |-> "", body |-> ""]

\* answers to init's request
InitResponses ==
    {Response(200, "200 OK", ApproversBody),
     Response(200, "200 OK", "{}"),
     Response(200, "200 OK", "wrong parameter"),
     Response(201, "201 Created", ApproversBody),
     Response(500, "500 Internal Server Error", "wrong parameter"),
     NetworkFailure}

\* answers to the status update of callback and cancel
StatusResponses ==
    {Response(200, "200 OK", "{}"),
     Response(201, "201 Created", "{}"),
     Response(500, "500 Internal Server Error", "wrong parameter"),
     NetworkFailure}

-----------------------------------------------------------------------------
(* Effects: the output sink, the file system *)

Ev(kind, arg) == [kind |-> kind, arg |-> arg]

PrintEvents(lines) == [i \in 1..Len(lines) |-> Ev("print", lines[i])]

\* the package variable debug, set when the package is initialised
debug == Getenv("DEBUG") = "true"

\* debugf(format, a...): the line it prints to the standard output of the process
\* (the time stamp left out), nothing unless debug is set
debugf(format, a) == IF debug THEN <<[format |-> format, a |-> a]>> ELSE <<>>

\* debugf("Response: '%s'\n", resp), which every handler calls when post succeeded
responseDiag == IF err = Nil THEN debugf("Response: '%s'\n", <<resp>>) ELSE <<>>

\* what os.WriteFile can return: success, or a failure that leaves the file as it was
IoOutcomes == {Nil, "permission denied"}

WriteFileErr(file, io) == "open " \o file \o ": " \o io

\* writeStatus(status, message) under the os.WriteFile outcome io:
\* the error returned and, when the file is written, its new content
writeStatus(status, message, io) ==
    LET file == Getenv("CLOUDBEES_STATUS") IN
    IF file = ""
    THEN [err |-> "CLOUDBEES_STATUS environment variable missing", written |-> FALSE,
          content |-> NoFile]
    ELSE IF io # Nil
    THEN [err |-> "failed to write to " \o file \o ": " \o WriteFileErr(file, io),
          written |-> FALSE, content |-> NoFile]
    ELSE [err |-> Nil, written |-> TRUE,
          content |-> [status |-> status, message |-> message]]

\* the os.WriteFile outcome of a writeStatus call, none when the call returns
\* before it writes
StatusIo(io) == IF Getenv("CLOUDBEES_STATUS") = "" THEN <<>> ELSE <<io>>

\* the os.WriteFile outcome of a writeAsOutput call
OutputIo(io) == IF Getenv("CLOUDBEES_OUTPUTS") = "" THEN <<>> ELSE <<io>>

\* the log entries of a writeStatus call
StatusWriteLog(w) ==
    IF w.written THEN <<[file |-> "status", content |-> w.content]>> ELSE <<>>

StatusWriteEvents(w) == IF w.written THEN <<Ev("write", "status")>> ELSE <<>>

\* a variant of writeAsOutput that reads CLOUDBEES_OUTPUTS only when the value
\* has content (it is neither empty nor the empty object)
writeAsOutputLazy(name, value, io) ==
    LET outputsDir == Getenv("CLOUDBEES_OUTPUTS")
        outputFile == outputsDir \o "/" \o name
    IN  IF value \in {"", "{}"}
        THEN [err |-> Nil, written |-> FALSE]
        ELSE IF outputsDir = ""
        THEN [err |-> "CLOUDBEES_OUTPUTS environment variable missing", written |-> FALSE]
        ELSE IF io # Nil
        THEN [err |-> "failed to write to " \o outputFile \o ": "
                        \o WriteFileErr(outputFile, io),
              written |-> FALSE]
        ELSE [err |-> Nil, written |-> TRUE]

\* a variant of writeAsOutput that leaves out the file of an empty value
writeAsOutputNonEmpty(name, value, io) ==
    LET outputsDir == Getenv("CLOUDBEES_OUTPUTS")
        outputFile == outputsDir \o "/" \o name
    IN  IF outputsDir = ""
        THEN [err |-> "CLOUDBEES_OUTPUTS environment variable missing", written |-> FALSE]
        ELSE IF value = ""
        THEN [err |-> Nil, written |-> FALSE]
        ELSE IF io # Nil
        THEN [err |-> "failed to write to " \o outputFile \o ": "
                        \o WriteFileErr(outputFile, io),
              written |-> FALSE]
        ELSE [err |-> Nil, written |-> TRUE]

\* writeAsOutput(name, value) under the os.WriteFile outcome io
writeAsOutput(name, value, io) ==
    LET outputsDir == Getenv("CLOUDBEES_OUTPUTS")
        outputFile == outputsDir \o "/" \o name
    IN  IF outputsDir = ""
        THEN [err |-> "CLOUDBEES_OUTPUTS environment variable missing", written |-> FALSE]
        ELSE IF io # Nil
        THEN [err |-> "failed to write to " \o outputFile \o ": "
                        \o WriteFileErr(outputFile, io),
              written |-> FALSE]
        ELSE [err |-> Nil, written |-> TRUE]

-----------------------------------------------------------------------------
(* Config.defaultConfig and Config.post *)

\* a variant of defaultConfig that does not look whether API_TOKEN is set
defaultConfigAnyToken ==
    IF Getenv("URL") = ""
    THEN [apiUrl |-> "", apiToken |-> "", err |-> "URL environment variable missing"]
    ELSE [apiUrl |-> Getenv("URL"), apiToken |-> Getenv("API_TOKEN"), err |-> Nil]

\* a variant of defaultConfig that reads API_TOKEN before URL
defaultConfigTokenFirst ==
    IF Getenv("API_TOKEN") = ""
    THEN [apiUrl |-> "", apiToken |-> "nil",
          err |-> "API_TOKEN environment variable missing"]
    ELSE IF Getenv("URL") = ""
    THEN [apiUrl |-> "", apiToken |-> "", err |-> "URL environment variable missing"]
    ELSE [apiUrl |-> Getenv("URL"), apiToken |-> Getenv("API_TOKEN"), err |-> Nil]

defaultConfig ==
    IF Getenv("URL") = ""
    THEN [apiUrl |-> "", apiToken |-> "", err |-> "URL environment variable missing"]
    ELSE IF Getenv("API_TOKEN") = ""
    THEN [apiUrl |-> "", apiToken |-> "nil",
          err |-> "API_TOKEN environment variable missing"]
    ELSE [apiUrl |-> Getenv("URL"), apiToken |-> Getenv("API_TOKEN"), err |-> Nil]

\* url.JoinPath(apiUrl, apiPath): url.Parse rejects a text that starts with a colon
JoinPath(apiUrl, apiPath) ==
    IF Head(apiUrl) = ":"
    THEN [url |-> "", err |-> "parse \"" \o apiUrl \o "\": missing protocol scheme"]
    ELSE [url |-> TrimRightSlash(apiUrl) \o apiPath, err |-> Nil]

\* a variant of PostResult that takes every 2xx answer for a success
PostResultAny2xx(requestURL, r) ==
    IF r.neterr # ""
    THEN [resp |-> "", err |-> r.neterr]
    ELSE IF r.code < 200 \/ r.code > 299
    THEN [resp |-> r.body,
          err |-> "failed to send event: \nPOST " \o requestURL \o "\nHTTP/"
                    \o FormatInt(r.code) \o " " \o r.status \o "\n"]
    ELSE [resp |-> r.body, err |-> Nil]

\* a variant of PostResult that returns no body with the error of a status code
PostResultDropsBody(requestURL, r) ==
    IF r.neterr # ""
    THEN [resp |-> "", err |-> r.neterr]
    ELSE IF r.code # 200
    THEN [resp |-> "",
          err |-> "failed to send event: \nPOST " \o requestURL \o "\nHTTP/"
                    \o FormatInt(r.code) \o " " \o r.status \o "\n"]
    ELSE [resp |-> r.body, err |-> Nil]

\* what post returns once Client.Do has answered r
PostResult(requestURL, r) ==
    IF r.neterr # ""
    THEN [resp |-> "", err |-> r.neterr]
    ELSE IF r.code # 200
    THEN [resp |-> r.body,
          err |-> "failed to send event: \nPOST " \o requestURL \o "\nHTTP/"
                    \o FormatInt(r.code) \o " " \o r.status \o "\n"]
    ELSE [resp |-> r.body, err |-> Nil]

Request(requestURL, apiToken, requestBody) ==
    [method |-> "POST", url |-> requestURL,
     authorization |-> "Bearer " \o apiToken,
     contentType |-> "application/json", accept |-> "application/json",
     body |-> requestBody]

PostPcs == {"init_post", "callback_post", "cancel_post"}

ApiPath == IF pc = "init_post" THEN "/v1/workflows/approval"
           ELSE "/v1/workflows/approval/status"

AfterPost == CASE pc = "init_post" -> "init_resp"
               [] pc = "callback_post" -> "callback_resp"
               [] pc = "cancel_post" -> "cancel_resp"

\* Config.post is waiting for Client.Do to return
InFlight == pc \in PostPcs /\ Len(requests) > Len(answers)

\* the diagnostic lines of post and of defaultConfig, which it calls
postDiag ==
    debugf("Post http request to the platform API endpoint: '%s'\n", <<ApiPath>>)
    \o debugf("Read default configuration from the environment variables\n", <<>>)
    \o (IF defaultConfig.err = Nil /\ JoinPath(defaultConfig.apiUrl, ApiPath).err = Nil
        THEN debugf("Payload: '%s'\n", <<body>>)
        ELSE <<>>)

\* Config.post(apiPath, body) up to its call of Client.Do: the request is built
\* by http.NewRequest, which gives it the background context, not Config.Context
post ==
    /\ pc \in PostPcs
    /\ ~InFlight
    /\ LET cfg == defaultConfig
           joined == JoinPath(cfg.apiUrl, ApiPath)
       IN  IF cfg.err # Nil
           THEN /\ resp' = ""
                /\ err' = cfg.err
                /\ pc' = AfterPost
                /\ UNCHANGED <<requests, events>>
           ELSE IF joined.err # Nil
           THEN /\ resp' = ""
                /\ err' = joined.err
                /\ pc' = AfterPost
                /\ UNCHANGED <<requests, events>>
           ELSE /\ requests' = Append(requests, Request(joined.url, cfg.apiToken, body))
                /\ events' = Append(events, Ev("post", ApiPath))
                /\ UNCHANGED <<resp, err, pc>>
    /\ diag' = diag \o postDiag
    /\ UNCHANGED <<args, handler, env, PAYLOAD, first, ctx, interruptedInFlight, ret,
                   body, modifiedInputsParamForPost, outputsMap, jobStatus, out,
                   answers, statusFile, outputs, writes, ios>>

\* a variant of Do after which post sends its request once more when the first
\* call has failed in the network
DoRetrying ==
    /\ InFlight
    /\ \E r \in (IF pc = "init_post" THEN InitResponses ELSE StatusResponses) :
         /\ answers' = Append(answers, r)
         /\ resp' = PostResult(requests[Len(requests)].url, r).resp
         /\ err' = PostResult(requests[Len(requests)].url, r).err
         /\ pc' = IF r.neterr # "" /\ Len(requests) = 1 THEN pc ELSE AfterPost
    /\ UNCHANGED <<args, handler, env, PAYLOAD, first, ctx, interruptedInFlight, ret,
                   body, modifiedInputsParamForPost, outputsMap, jobStatus, out,
                   requests, statusFile, outputs, writes, ios, events, diag>>

\* Client.Do returns and Config.post with it: the answer does not depend on
\* Config.Context, which the request does not carry
Do ==
    /\ InFlight
    /\ \E r \in (IF pc = "init_post" THEN InitResponses ELSE StatusResponses) :
         /\ answers' = Append(answers, r)
         /\ resp' = PostResult(requests[Len(requests)].url, r).resp
         /\ err' = PostResult(requests[Len(requests)].url, r).err
    /\ pc' = AfterPost
    /\ UNCHANGED <<args, handler, env, PAYLOAD, first, ctx, interruptedInFlight, ret,
                   body, modifiedInputsParamForPost, outputsMap, jobStatus, out,
                   requests, statusFile, outputs, writes, ios, events, diag>>

\* the goroutine of cmd.run: an interrupt signal cancels the context
interrupt ==
    /\ pc \notin {"run", "done"}
    /\ ctx = "active"
    /\ ctx' = "cancelled"
    /\ interruptedInFlight' = InFlight
    /\ UNCHANGED <<args, handler, env, PAYLOAD, first, pc, ret, body, resp, err,
                   modifiedInputsParamForPost, outputsMap, jobStatus, out, requests,
                   answers, statusFile, outputs, writes, ios, events, diag>>

-----------------------------------------------------------------------------
(* cmd.run and Config.Run *)

\* cmd.run: positional arguments are rejected before Config.Run is called
run ==
    /\ pc = "run"
    /\ IF Len(args) > 0
       THEN /\ ret' = "unknown arguments: [" \o Join(args, " ") \o "]"
            /\ pc' = "done"
       ELSE /\ ret' = ret
            /\ pc' = "Run"
    /\ UNCHANGED <<args, handler, env, PAYLOAD, first, ctx, interruptedInFlight, body,
                   resp, err, modifiedInputsParamForPost, outputsMap, jobStatus, out,
                   requests, answers, statusFile, outputs, writes, ios, events, diag>>

\* a variant of Run that takes the empty handler name for init
RunDefaultInit ==
    /\ pc = "Run"
    /\ IF handler \in {"init", "callback", "cancel", ""}
       THEN /\ pc' = IF handler = "" THEN "init" ELSE handler
            /\ ret' = ret
       ELSE /\ pc' = "done"
            /\ ret' = "unsupported handler type: " \o handler
    /\ UNCHANGED <<args, handler, env, PAYLOAD, first, ctx, interruptedInFlight, body,
                   resp, err, modifiedInputsParamForPost, outputsMap, jobStatus, out,
                   requests, answers, statusFile, outputs, writes, ios, events, diag>>

\* Config.Run: the handler is selected by name
Run ==
    /\ pc = "Run"
    /\ IF handler \in {"init", "callback", "cancel"}
       THEN /\ pc' = handler
            /\ ret' = ret
       ELSE /\ pc' = "done"
            /\ ret' = "unsupported handler type: " \o handler
    /\ UNCHANGED <<args, handler, env, PAYLOAD, first, ctx, interruptedInFlight, body,
                   resp, err, modifiedInputsParamForPost, outputsMap, jobStatus, out,
                   requests, answers, statusFile, outputs, writes, ios, events, diag>>

-----------------------------------------------------------------------------
(* Config.cancel *)

\* a variant of cancelStatus that compares the reason without regard to case
cancelStatusAnyCase(cancellationReason) ==
    IF cancellationReason \in {"CANCELLED", "cancelled", "Cancelled"}
    THEN "UPDATE_MANUAL_APPROVAL_STATUS_ABORTED"
    ELSE "UPDATE_MANUAL_APPROVAL_STATUS_TIMED_OUT"

\* the status cancel reports for a cancellation reason
cancelStatus(cancellationReason) ==
    IF cancellationReason = "CANCELLED"
    THEN "UPDATE_MANUAL_APPROVAL_STATUS_ABORTED"
    ELSE "UPDATE_MANUAL_APPROVAL_STATUS_TIMED_OUT"

\* the two lines cancel prints for a cancellation reason
cancelLines(cancellationReason) ==
    IF cancellationReason = "CANCELLED"
    THEN <<"Workflow aborted by user\n", "Cancelling the manual approval request\n">>
    ELSE <<"Workflow timed out\n",
           "Workflow approval response was not received within allotted time.\n">>

\* a variant of cancelStart that prints its diagnostic line through Config.Output
cancelStartDebugToSink ==
    /\ pc = "cancel"
    /\ LET cancellationReason == Getenv("CANCELLATION_REASON")
           line == IF debug THEN <<"DEBUG: Inside cancel handler\n">> ELSE <<>>
       IN
       IF cancellationReason = ""
       THEN /\ ret' = "CANCELLATION_REASON environment variable missing"
            /\ pc' = "done"
            /\ out' = out \o line
            /\ events' = events \o PrintEvents(line)
            /\ body' = body
       ELSE /\ out' = out \o line \o cancelLines(cancellationReason)
            /\ events' = events \o PrintEvents(line \o cancelLines(cancellationReason))
            /\ body' = [status |-> JStr(cancelStatus(cancellationReason))]
            /\ pc' = "cancel_post"
            /\ ret' = ret
    /\ diag' = diag \o debugf("Inside cancel handler\n", <<>>)
    /\ UNCHANGED <<args, handler, env, PAYLOAD, first, ctx, interruptedInFlight, resp,
                   err, modifiedInputsParamForPost, outputsMap, jobStatus, requests,
                   answers, statusFile, outputs, writes, ios>>

\* cancel up to its call of post
cancelStart ==
    /\ pc = "cancel"
    /\ LET cancellationReason == Getenv("CANCELLATION_REASON") IN
       IF cancellationReason = ""
       THEN /\ ret' = "CANCELLATION_REASON environment variable missing"
            /\ pc' = "done"
            /\ UNCHANGED <<body, out, events>>
       ELSE /\ out' = out \o cancelLines(cancellationReason)
            /\ events' = events \o PrintEvents(cancelLines(cancellationReason))
            /\ body' = [status |-> JStr(cancelStatus(cancellationReason))]
            /\ pc' = "cancel_post"
            /\ ret' = ret
    /\ diag' = diag \o debugf("Inside cancel handler\n", <<>>)
    /\ UNCHANGED <<args, handler, env, PAYLOAD, first, ctx, interruptedInFlight, resp,
                   err, modifiedInputsParamForPost, outputsMap, jobStatus, requests,
                   answers, statusFile, outputs, writes, ios>>

\* the two lines every handler prints when post returns an error
PostErrorLines ==
    <<"ERROR: API call failed with error: '" \o err \o "'\n",
      "ERROR: API response: '" \o resp \o "'\n">>

\* a variant of cancelFinish that records FAILED, as init and callback do, when
\* post has returned an error
cancelFinishRecording ==
    /\ pc = "cancel_resp"
    /\ IF err # Nil
       THEN \E io \in IoOutcomes :
              LET w == writeStatus("FAILED", "Failed to change workflow manual approval status: '"
                                              \o err \o "'", io)
              IN  /\ out' = out \o PostErrorLines
                  /\ events' = events \o PrintEvents(PostErrorLines) \o StatusWriteEvents(w)
                  /\ statusFile' = IF w.written THEN w.content ELSE statusFile
                  /\ writes' = writes \o StatusWriteLog(w)
                  /\ ios' = ios \o StatusIo(io)
                  /\ ret' = IF w.err # Nil THEN w.err ELSE err
       ELSE /\ ret' = Nil
            /\ UNCHANGED <<out, events, statusFile, writes, ios>>
    /\ pc' = "done"
    /\ diag' = diag \o responseDiag
    /\ UNCHANGED <<args, handler, env, PAYLOAD, first, ctx, interruptedInFlight, body,
                   resp, err, modifiedInputsParamForPost, outputsMap, jobStatus,
                   requests, answers, outputs>>

\* cancel after post has returned
cancelFinish ==
    /\ pc = "cancel_resp"
    /\ IF err # Nil
       THEN /\ out' = out \o PostErrorLines
            /\ events' = events \o PrintEvents(PostErrorLines)
            /\ ret' = err
       ELSE /\ ret' = Nil
            /\ UNCHANGED <<out, events>>
    /\ pc' = "done"
    /\ diag' = diag \o responseDiag
    /\ UNCHANGED <<args, handler, env, PAYLOAD, first, ctx, interruptedInFlight, body,
                   resp, err, modifiedInputsParamForPost, outputsMap, jobStatus,
                   requests, answers, statusFile, outputs, writes, ios>>

-----------------------------------------------------------------------------
(* Config.init *)

\* strconv.Quote of a text: quotes, backslashes and newlines are escaped
RECURSIVE QuoteChars(_)
QuoteChars(s) ==
    IF Len(s) = 0 THEN ""
    ELSE (CASE Head(s) = "\"" -> "\\\""
            [] Head(s) = "\\" -> "\\\\"
            [] Head(s) = "\n" -> "\\n"
            [] OTHER -> Head(s)) \o QuoteChars(Tail(s))

Quote(s) == "\"" \o QuoteChars(s) \o "\""

\* a variant of ParseBool that reads every unknown text as false
ParseBoolLenient(str) ==
    IF str \in {"1", "t", "T", "TRUE", "true", "True"}
    THEN [value |-> TRUE, err |-> Nil]
    ELSE [value |-> FALSE, err |-> Nil]

\* strconv.ParseBool
ParseBool(str) ==
    IF str \in {"1", "t", "T", "TRUE", "true", "True"}
    THEN [value |-> TRUE, err |-> Nil]
    ELSE IF str \in {"0", "f", "F", "FALSE", "false", "False"}
    THEN [value |-> FALSE, err |-> Nil]
    ELSE [value |-> FALSE,
          err |-> "strconv.ParseBool: parsing " \o Quote(str) \o ": invalid syntax"]

\* an unset or empty flag reads as "false"
FlagText(name) == IF Getenv(name) = "" THEN "false" ELSE Getenv(name)

\* strings.Split(s, ","): the texts between the commas, in order
RECURSIVE SplitFrom(_, _)
SplitFrom(s, current) ==
    IF Len(s) = 0 THEN <<current>>
    ELSE IF Head(s) = "," THEN <<current>> \o SplitFrom(Tail(s), "")
    ELSE SplitFrom(Tail(s), current \o Head(s))

\* a variant of Split that leaves out the empty parts
SplitNonEmpty(s) == SelectSeq(SplitFrom(s, ""), LAMBDA part : part # "")

Split(s) == SplitFrom(s, "")

\* the request body init builds from the environment
initBody(disallowLaunchedByUser, notify) ==
    LET approvers == Getenv("APPROVERS")
        instructions == Getenv("INSTRUCTIONS")
        inputs == Getenv("INPUTS")
        fixed == [disallowLaunchedByUser |-> JBool(disallowLaunchedByUser),
                  notifyEligibleUsers |-> JBool(notify)]
        withApprovers ==
            IF approvers # ""
            THEN ("approvers" :> JArr([i \in 1..Len(Split(approvers)) |->
                                          JStr(Split(approvers)[i])])) @@ fixed
            ELSE fixed
        withInstructions ==
            IF instructions # ""
            THEN ("instructions" :> JStr(instructions)) @@ withApprovers
            ELSE withApprovers
    IN  IF inputs # ""
        THEN ("approvalInputs" :> JStr(inputs)) @@ withInstructions
        ELSE withInstructions

\* init up to its call of post: the flags are parsed, the body is built
initBuildRequest ==
    /\ pc = "init"
    /\ LET disallow == ParseBool(FlagText("DISALLOW_LAUNCHED_BY_USER"))
           notify == ParseBool(FlagText("NOTIFY_ALL_ELIGIBLE_USERS"))
       IN  IF disallow.err # Nil
           THEN ret' = disallow.err /\ pc' = "done" /\ body' = body
           ELSE IF notify.err # Nil
           THEN ret' = notify.err /\ pc' = "done" /\ body' = body
           ELSE /\ body' = initBody(disallow.value, notify.value)
                /\ pc' = "init_post"
                /\ ret' = ret
    /\ diag' = diag \o debugf("Inside init handler\n", <<>>)
    /\ UNCHANGED <<args, handler, env, PAYLOAD, first, ctx, interruptedInFlight, resp,
                   err, modifiedInputsParamForPost, outputsMap, jobStatus, out,
                   requests, answers, statusFile, outputs, writes, ios, events>>

\* init when post returned an error: two lines, the FAILED record, the error
initPostFailed ==
    /\ pc = "init_resp"
    /\ err # Nil
    /\ \E io \in IoOutcomes :
         LET w == writeStatus("FAILED",
                    "Failed to initialize workflow manual approval request: '"
                        \o err \o "'", io)
         IN  /\ out' = out \o PostErrorLines
             /\ statusFile' = IF w.written THEN w.content ELSE statusFile
             /\ writes' = writes \o StatusWriteLog(w)
             /\ ios' = ios \o StatusIo(io)
             /\ events' = events \o PrintEvents(PostErrorLines) \o StatusWriteEvents(w)
             /\ ret' = IF w.err # Nil THEN w.err ELSE err
    /\ pc' = "done"
    /\ UNCHANGED <<args, handler, env, PAYLOAD, first, ctx, interruptedInFlight, body,
                   resp, err, modifiedInputsParamForPost, outputsMap, jobStatus,
                   requests, answers, outputs, diag>>

\* json.Unmarshal of the response text into CreateManualApprovalResponse:
\* the user names of the approvers, for the response texts of the model
DecodeApprovalResponse(text) ==
    CASE text = ApproversBody -> [err |-> Nil, users |-> <<"u1", "u2">>]
      [] text = "{}" -> [err |-> Nil, users |-> <<>>]
      [] OTHER -> [err |-> "invalid character 'w' looking for beginning of value",
                   users |-> <<>>]

\* markdown(value), goldmark's rendering, for the instructions of the model
markdown(value) ==
    CASE value = "# t" -> "<h1>t</h1>\n"
      [] OTHER -> "<p>" \o value \o "</p>\n"

\* a variant of initSuccessLines that prints the instructions first, and also
\* when there are none
initSuccessLinesInstructionsFirst(users) ==
    <<"Instructions:\n" \o markdown(Getenv("INSTRUCTIONS")) \o "\n">>
    \o <<"Waiting for approval from one of the following: " \o Join(users, ",") \o "\n">>

\* the lines init prints once the response is decoded
initSuccessLines(users) ==
    <<"Waiting for approval from one of the following: " \o Join(users, ",") \o "\n">>
    \o (IF Getenv("INSTRUCTIONS") # ""
        THEN <<"Instructions:\n" \o markdown(Getenv("INSTRUCTIONS")) \o "\n">>
        ELSE <<>>)

\* init when post succeeded: decode, print, write PENDING_APPROVAL
initPostOk ==
    /\ pc = "init_resp"
    /\ err = Nil
    /\ LET parsedResp == DecodeApprovalResponse(resp) IN
       IF parsedResp.err # Nil
       THEN /\ ret' = parsedResp.err
            /\ UNCHANGED <<out, statusFile, writes, ios, events>>
       ELSE \E io \in IoOutcomes :
              LET w == writeStatus("PENDING_APPROVAL",
                                   "Waiting for approval from approvers", io)
                  lines == initSuccessLines(parsedResp.users)
              IN  /\ out' = out \o lines
                  /\ statusFile' = IF w.written THEN w.content ELSE statusFile
                  /\ writes' = writes \o StatusWriteLog(w)
                  /\ ios' = ios \o StatusIo(io)
                  /\ events' = events \o PrintEvents(lines) \o StatusWriteEvents(w)
                  /\ ret' = w.err
    /\ pc' = "done"
    /\ diag' = diag \o responseDiag
    /\ UNCHANGED <<args, handler, env, PAYLOAD, first, ctx, interruptedInFlight, body,
                   resp, err, modifiedInputsParamForPost, outputsMap, jobStatus,
                   requests, answers, outputs>>

-----------------------------------------------------------------------------
(* Value coercion and JSON encoding *)

\* strconv.FormatFloat(v, 'g', -1, 64) of an integral number below 1e21: its digits
FormatFloat(n) == FormatInt(n)

FormatBool(b) == IF b THEN "true" ELSE "false"

\* a variant of interfaceToString without the case of a number
interfaceToStringNoFloat(i) ==
    CASE i.t = "string" -> i.s
      [] i.t = "bool" -> FormatBool(i.b)
      [] OTHER -> "unsupported type"

interfaceToString(i) ==
    CASE i.t = "string" -> i.s
      [] i.t = "number" -> FormatFloat(i.n)
      [] i.t = "bool" -> FormatBool(i.b)
      [] OTHER -> "unsupported type"

\* encoding/json's text of a string: quotes, backslashes, newlines and the
\* HTML characters are escaped
RECURSIVE JsonChars(_)
JsonChars(s) ==
    IF Len(s) = 0 THEN ""
    ELSE (CASE Head(s) = "\"" -> "\\\""
            [] Head(s) = "\\" -> "\\\\"
            [] Head(s) = "\n" -> "\\n"
            [] Head(s) = "<" -> "\\u003c"
            [] Head(s) = ">" -> "\\u003e"
            [] Head(s) = "&" -> "\\u0026"
            [] OTHER -> Head(s)) \o JsonChars(Tail(s))

JsonString(s) == "\"" \o JsonChars(s) \o "\""

\* json.Marshal of a value that is no object
RECURSIVE MarshalValue(_)
MarshalValue(v) ==
    CASE v.t = "string" -> JsonString(v.s)
      [] v.t = "number" -> FormatFloat(v.n)
      [] v.t = "bool" -> FormatBool(v.b)
      [] v.t = "array" ->
            "[" \o Join([i \in 1..Len(v.a) |-> MarshalValue(v.a[i])], ",") \o "]"
      [] v.t = "object" /\ DOMAIN v.o = {} -> "{}"
      [] OTHER -> "null"

\* the input names of the model, in the order json.Marshal sorts map keys
KeyOrder == <<"n1", "n2">>

InDomain(m, k) == k \in DOMAIN m

\* json.Marshal of a map[string]interface{}: the keys sorted
MarshalMap(m) ==
    LET keys == SelectSeq(KeyOrder, LAMBDA k : InDomain(m, k))
    IN  "{" \o Join([i \in 1..Len(keys) |->
                        JsonString(keys[i]) \o ":" \o MarshalValue(m[keys[i]])], ",")
            \o "}"

-----------------------------------------------------------------------------
(* The callback payloads of the model *)

Approved == "UPDATE_MANUAL_APPROVAL_STATUS_APPROVED"
Rejected == "UPDATE_MANUAL_APPROVAL_STATUS_REJECTED"

ApprovalStatuses == {Approved, Rejected, "UPDATE_MANUAL_APPROVAL_STATUS_UNSPECIFIED"}

CommentValues == {"", "lgtm"}

InputValue(name, value, isDefault) ==
    JObj([name |-> JStr(name), value |-> value, is_default |-> isDefault])

\* a boolean, a text of two lines, a number, and three values of no supported
\* type: null, a list and an object; entries share their names
InputEntries ==
    {InputValue("n1", JBool(TRUE), JBool(TRUE)),
     InputValue("n1", JStr("a\nb"), JBool(FALSE)),
     InputValue("n2", JNum(-12), JBool(FALSE)),
     InputValue("n2", JNull, JStr("true")),
     InputValue("n1", JArr(<<JNum(1), JStr("x")>>), JBool(FALSE)),
     InputValue("n2", JObj([k \in {} |-> JNull]), JBool(TRUE))}

\* the lists of up to MaxInputs entries, no entry twice in a list
InputLists ==
    {l \in UNION {[1..n -> InputEntries] : n \in 0..MaxInputs} :
        \A i, j \in 1..Len(l) : l[i] = l[j] => i = j}

PayloadFields(status, comments) ==
    [status |-> JStr(status), comments |-> JStr(comments), userId |-> JStr("123"),
     userName |-> JStr("testUserName"), respondedOn |-> JStr("2009-11-10T23:00:00Z")]

\* the well-formed payloads: inputs absent, null, or a list
Payloads ==
    {JObj(PayloadFields(st, c)) : st \in ApprovalStatuses, c \in CommentValues}
    \cup {JObj(("inputs" :> ins) @@ PayloadFields(st, c)) :
            st \in ApprovalStatuses, c \in CommentValues,
            ins \in {JNull} \cup {JArr(l) : l \in InputLists}}

Unset == [t |-> "unset"]

\* PAYLOAD unset, no JSON, JSON that is no object, and objects of the wrong shape
OddPayloads ==
    {Unset, JInvalid, JArr(<<>>), JNull,
     JObj([comments |-> JStr("lgtm"), userName |-> JStr("u"),
           respondedOn |-> JStr("t")]),
     JObj([PayloadFields(Approved, "lgtm") EXCEPT !.comments = JNum(1)]),
     JObj(("inputs" :> JStr("x")) @@ PayloadFields(Approved, "lgtm")),
     JObj(("inputs" :> JArr(<<JStr("x")>>)) @@ PayloadFields(Approved, "lgtm")),
     JObj(("inputs" :> JArr(<<JObj([value |-> JNum(1)])>>))
            @@ PayloadFields(Approved, "lgtm"))}

-----------------------------------------------------------------------------
(* Config.callback *)

\* the map with no key
EmptyMap == [k \in {} |-> JNull]

\* json.Unmarshal of the PAYLOAD text into a map[string]interface{}
UnmarshalPayload ==
    CASE PAYLOAD.t = "object" -> [err |-> Nil, map |-> PAYLOAD.o]
      [] PAYLOAD.t = "null" -> [err |-> Nil, map |-> EmptyMap]
      [] PAYLOAD.t = "invalid" ->
            [err |-> "invalid character 'o' in literal null (expecting 'u')",
             map |-> EmptyMap]
      [] OTHER ->
            [err |-> "json: cannot unmarshal " \o PAYLOAD.t
                       \o " into Go value of type map[string]interface {}",
             map |-> EmptyMap]

\* outputsMap after the loop over the inputs: a later entry of the same name
\* overwrites an earlier one
RECURSIVE CaptureOutputs(_)
CaptureOutputs(inputs) ==
    IF Len(inputs) = 0 THEN EmptyMap
    ELSE LET ip == inputs[Len(inputs)].o
         IN  (ip["name"].s :> Lookup(ip, "value"))
                @@ CaptureOutputs(SubSeq(inputs, 1, Len(inputs) - 1))

\* a variant of CoerceInput that sends the name and the converted value only
CoerceInputNameValue(input) ==
    JObj([name |-> input.o["name"],
          value |-> JStr(interfaceToString(Lookup(input.o, "value")))])

\* one input of the list with its value converted to a string
CoerceInput(input) ==
    JObj(("value" :> JStr(interfaceToString(Lookup(input.o, "value")))) @@ input.o)

\* a variant of formatInputsForPost that fails on a value of no supported type
formatInputsForPostStrict(parsedPayload) ==
    LET inputs == Lookup(parsedPayload, "inputs")
        none == [panic |-> FALSE, modified |-> <<>>, outputsMap |-> EmptyMap,
                 payload |-> parsedPayload]
        failed == [panic |-> TRUE, modified |-> <<>>, outputsMap |-> EmptyMap,
                   payload |-> parsedPayload]
    IN  IF inputs.t = "null" THEN none
        ELSE IF inputs.t # "array" THEN failed
        ELSE IF Len(inputs.a) = 0 THEN none
        ELSE IF \E i \in 1..Len(inputs.a) :
                    \/ inputs.a[i].t # "object"
                    \/ ~IsString(Lookup(inputs.a[i].o, "name"))
                    \/ Lookup(inputs.a[i].o, "value").t
                          \notin {"string", "number", "bool"}
        THEN failed
        ELSE LET modified == [i \in 1..Len(inputs.a) |-> CoerceInput(inputs.a[i])]
             IN  [panic |-> FALSE, modified |-> modified,
                  outputsMap |-> CaptureOutputs(inputs.a),
                  payload |-> ("inputs" :> JArr(modified)) @@ parsedPayload]

\* formatInputsForPost(parsedPayload): the list for the log, the output map and the
\* payload as it is after the call; panic when a type assertion fails
formatInputsForPost(parsedPayload) ==
    LET inputs == Lookup(parsedPayload, "inputs")
        none == [panic |-> FALSE, modified |-> <<>>, outputsMap |-> EmptyMap,
                 payload |-> parsedPayload]
        failed == [panic |-> TRUE, modified |-> <<>>, outputsMap |-> EmptyMap,
                   payload |-> parsedPayload]
    IN  IF inputs.t = "null" THEN none
        ELSE IF inputs.t # "array" THEN failed
        ELSE IF Len(inputs.a) = 0 THEN none
        ELSE IF \E i \in 1..Len(inputs.a) :
                    \/ inputs.a[i].t # "object"
                    \/ ~IsString(Lookup(inputs.a[i].o, "name"))
        THEN failed
        ELSE LET modified == [i \in 1..Len(inputs.a) |-> CoerceInput(inputs.a[i])]
             IN  [panic |-> FALSE, modified |-> modified,
                  outputsMap |-> CaptureOutputs(inputs.a),
                  payload |-> ("inputs" :> JArr(modified)) @@ parsedPayload]

\* the diagnostic lines of callback up to its call of post: a line for every
\* field read until a type assertion fails, then the line of formatInputsForPost
RECURSIVE fieldsDiag(_, _)
fieldsDiag(m, fields) ==
    IF Len(fields) = 0 \/ ~IsString(Lookup(m, Head(fields).name)) THEN <<>>
    ELSE debugf(Head(fields).format, <<Lookup(m, Head(fields).name).s>>)
            \o fieldsDiag(m, Tail(fields))

callbackDiag ==
    LET parsed == UnmarshalPayload
        fields == <<[name |-> "status", format |-> "Approval status: '%s'\n"],
                    [name |-> "comments", format |-> "Comments: '%s'\n"],
                    [name |-> "respondedOn", format |-> "Responded on: '%s'\n"],
                    [name |-> "userName", format |-> "Approver user name: '%s'\n"]>>
        formatted == formatInputsForPost(parsed.map)
    IN  debugf("Inside callback handler\n", <<>>)
        \o (IF PAYLOAD = Unset THEN <<>>
            ELSE debugf("Incoming payload: '%s'\n", <<PAYLOAD>>)
                \o (IF parsed.err # Nil THEN <<>>
                    ELSE fieldsDiag(parsed.map, fields)
                        \o (IF (\E i \in 1..Len(fields) :
                                    ~IsString(Lookup(parsed.map, fields[i].name)))
                                \/ formatted.panic
                            THEN <<>>
                            ELSE IF Len(formatted.modified) > 0
                            THEN debugf("Inputs for post request: '%s'\n",
                                        <<formatted.modified>>)
                            ELSE debugf("**No Input Parameters Defined**\n", <<>>))))

\* a variant of callbackParse that records FAILED when the payload cannot be used
callbackParseRecording ==
    /\ pc = "callback"
    /\ LET parsed == UnmarshalPayload
           fields == {"status", "comments", "respondedOn", "userName"}
           formatted == formatInputsForPost(parsed.map)
           failure == IF PAYLOAD = Unset THEN "PAYLOAD environment variable missing"
                      ELSE parsed.err
       IN  IF failure # Nil
           THEN \E io \in IoOutcomes :
                  LET w == writeStatus("FAILED", failure, io)
                  IN  /\ statusFile' = IF w.written THEN w.content ELSE statusFile
                      /\ writes' = writes \o StatusWriteLog(w)
                      /\ ios' = ios \o StatusIo(io)
                      /\ events' = events \o StatusWriteEvents(w)
                      /\ ret' = failure
                      /\ pc' = "done"
                      /\ UNCHANGED <<body, modifiedInputsParamForPost, outputsMap>>
           ELSE /\ UNCHANGED <<statusFile, writes, ios, events>>
                /\ IF (\E f \in fields : ~IsString(Lookup(parsed.map, f)))
                        \/ formatted.panic
                   THEN /\ ret' = Panic
                        /\ pc' = "done"
                        /\ UNCHANGED <<body, modifiedInputsParamForPost, outputsMap>>
                   ELSE /\ body' = formatted.payload
                        /\ modifiedInputsParamForPost' = formatted.modified
                        /\ outputsMap' = formatted.outputsMap
                        /\ pc' = "callback_post"
                        /\ ret' = ret
    /\ diag' = diag \o callbackDiag
    /\ UNCHANGED <<args, handler, env, PAYLOAD, first, ctx, interruptedInFlight, resp,
                   err, jobStatus, out, requests, answers, outputs>>

\* callback up to its call of post
callbackParse ==
    /\ pc = "callback"
    /\ LET parsed == UnmarshalPayload
           fields == {"status", "comments", "respondedOn", "userName"}
           formatted == formatInputsForPost(parsed.map)
       IN  IF PAYLOAD = Unset
           THEN /\ ret' = "PAYLOAD environment variable missing"
                /\ pc' = "done"
                /\ UNCHANGED <<body, modifiedInputsParamForPost, outputsMap>>
           ELSE IF parsed.err # Nil
           THEN /\ ret' = parsed.err
                /\ pc' = "done"
                /\ UNCHANGED <<body, modifiedInputsParamForPost, outputsMap>>
           ELSE IF \E f \in fields : ~IsString(Lookup(parsed.map, f))
           THEN /\ ret' = Panic
                /\ pc' = "done"
                /\ UNCHANGED <<body, modifiedInputsParamForPost, outputsMap>>
           ELSE IF formatted.panic
           THEN /\ ret' = Panic
                /\ pc' = "done"
                /\ UNCHANGED <<body, modifiedInputsParamForPost, outputsMap>>
           ELSE /\ body' = formatted.payload
                /\ modifiedInputsParamForPost' = formatted.modified
                /\ outputsMap' = formatted.outputsMap
                /\ pc' = "callback_post"
                /\ ret' = ret
    /\ diag' = diag \o callbackDiag
    /\ UNCHANGED <<args, handler, env, PAYLOAD, first, ctx, interruptedInFlight, resp,
                   err, jobStatus, out, requests, answers, statusFile, outputs, writes,
                   ios, events>>

\* a variant of callbackPostFailed that returns the error of post whether or not
\* the FAILED record could be written
callbackPostFailedKeepsError ==
    /\ pc = "callback_resp"
    /\ err # Nil
    /\ \E io \in IoOutcomes :
         LET w == writeStatus("FAILED",
                    "Failed to change workflow manual approval status: '"
                        \o err \o "'", io)
         IN  /\ out' = out \o PostErrorLines
             /\ statusFile' = IF w.written THEN w.content ELSE statusFile
             /\ writes' = writes \o StatusWriteLog(w)
             /\ ios' = ios \o StatusIo(io)
             /\ events' = events \o PrintEvents(PostErrorLines) \o StatusWriteEvents(w)
             /\ ret' = err
    /\ pc' = "done"
    /\ UNCHANGED <<args, handler, env, PAYLOAD, first, ctx, interruptedInFlight, body,
                   resp, err, modifiedInputsParamForPost, outputsMap, jobStatus,
                   requests, answers, outputs, diag>>

\* a variant of callbackPostFailed that does not return once FAILED is recorded and
\* goes on to the last status write of callback
callbackPostFailedContinues ==
    /\ pc = "callback_resp"
    /\ err # Nil
    /\ \E io \in IoOutcomes :
         LET w == writeStatus("FAILED",
                    "Failed to change workflow manual approval status: '"
                        \o err \o "'", io)
         IN  /\ out' = out \o PostErrorLines
             /\ statusFile' = IF w.written THEN w.content ELSE statusFile
             /\ writes' = writes \o StatusWriteLog(w)
             /\ ios' = ios \o StatusIo(io)
             /\ events' = events \o PrintEvents(PostErrorLines) \o StatusWriteEvents(w)
             /\ ret' = IF w.err # Nil THEN w.err ELSE ret
             /\ pc' = IF w.err # Nil THEN "done" ELSE "callback_status"
    /\ UNCHANGED <<args, handler, env, PAYLOAD, first, ctx, interruptedInFlight, body,
                   resp, err, modifiedInputsParamForPost, outputsMap, jobStatus,
                   requests, answers, outputs, diag>>

\* callback when post returned an error: two lines, the FAILED record, the error
callbackPostFailed ==
    /\ pc = "callback_resp"
    /\ err # Nil
    /\ \E io \in IoOutcomes :
         LET w == writeStatus("FAILED",
                    "Failed to change workflow manual approval status: '"
                        \o err \o "'", io)
         IN  /\ out' = out \o PostErrorLines
             /\ statusFile' = IF w.written THEN w.content ELSE statusFile
             /\ writes' = writes \o StatusWriteLog(w)
             /\ ios' = ios \o StatusIo(io)
             /\ events' = events \o PrintEvents(PostErrorLines) \o StatusWriteEvents(w)
             /\ ret' = IF w.err # Nil THEN w.err ELSE err
    /\ pc' = "done"
    /\ UNCHANGED <<args, handler, env, PAYLOAD, first, ctx, interruptedInFlight, body,
                   resp, err, modifiedInputsParamForPost, outputsMap, jobStatus,
                   requests, answers, outputs, diag>>

\* the fields callback read from the payload before the inputs were converted
approvalStatus == PAYLOAD.o["status"].s
comments == PAYLOAD.o["comments"].s
respondedOn == PAYLOAD.o["respondedOn"].s
approverUserName == PAYLOAD.o["userName"].s

\* a variant of mapStatus with the two job statuses exchanged
mapStatusSwapped(status) ==
    CASE status = "UPDATE_MANUAL_APPROVAL_STATUS_APPROVED" -> "REJECTED"
      [] status = "UPDATE_MANUAL_APPROVAL_STATUS_REJECTED" -> "APPROVED"
      [] OTHER -> ""

\* a variant of mapStatus that takes every status but APPROVED for a rejection
mapStatusDefaultRejected(status) ==
    CASE status = "UPDATE_MANUAL_APPROVAL_STATUS_APPROVED" -> "APPROVED"
      [] OTHER -> "REJECTED"

\* the job status of an approval status, "" for a status that has none
mapStatus(status) ==
    CASE status = "UPDATE_MANUAL_APPROVAL_STATUS_APPROVED" -> "APPROVED"
      [] status = "UPDATE_MANUAL_APPROVAL_STATUS_REJECTED" -> "REJECTED"
      [] OTHER -> ""

approvalLine(status) ==
    (IF mapStatus(status) = "APPROVED" THEN "Approved" ELSE "Rejected")
        \o " by " \o approverUserName \o " on " \o respondedOn
        \o " with comments:\n" \o comments \o "\n"

\* processApprovalStatus, called once post has succeeded
processApprovalStatus ==
    /\ pc = "callback_resp"
    /\ err = Nil
    /\ IF mapStatus(approvalStatus) # ""
       THEN /\ jobStatus' = mapStatus(approvalStatus)
            /\ out' = Append(out, approvalLine(approvalStatus))
            /\ events' = Append(events, Ev("print", approvalLine(approvalStatus)))
            /\ pc' = "callback_log"
            /\ UNCHANGED <<ret, statusFile, writes, ios>>
       ELSE \E io \in IoOutcomes :
              LET text == "Unexpected approval status '" \o approvalStatus \o "'"
                  line == "ERROR: " \o text \o "\n"
                  w == writeStatus("FAILED", text, io)
              IN  /\ out' = Append(out, line)
                  /\ statusFile' = IF w.written THEN w.content ELSE statusFile
                  /\ writes' = writes \o StatusWriteLog(w)
                  /\ ios' = ios \o StatusIo(io)
                  /\ events' = Append(events, Ev("print", line)) \o StatusWriteEvents(w)
                  /\ ret' = IF w.err # Nil THEN w.err ELSE text
                  /\ pc' = "done"
                  /\ jobStatus' = jobStatus
    /\ diag' = diag \o responseDiag
    /\ UNCHANGED <<args, handler, env, PAYLOAD, first, ctx, interruptedInFlight, body,
                   resp, err, modifiedInputsParamForPost, outputsMap, requests, answers,
                   outputs>>

\* a variant of inputLine that marks a default whenever is_default is present and
\* is not the boolean false
inputLineTruthy(input) ==
    LET ip == input.o
        inputVal == ReplaceNewlines(ip["value"].s)
    IN  " " \o ip["name"].s \o ": "
            \o (IF Lookup(ip, "is_default") \notin {JBool(FALSE), JNull}
                THEN inputVal \o " (default)" ELSE inputVal)
            \o " \n"

\* the line printed for one converted input
inputLine(input) ==
    LET ip == input.o
        inputVal == ReplaceNewlines(ip["value"].s)
    IN  " " \o ip["name"].s \o ": "
            \o (IF Lookup(ip, "is_default") = JBool(TRUE)
                THEN inputVal \o " (default)" ELSE inputVal)
            \o " \n"

inputLines(inputs) ==
    IF Len(inputs) > 0
    THEN <<"\nInput Parameters:\n", "------------------\n">>
            \o [i \in 1..Len(inputs) |-> inputLine(inputs[i])]
    ELSE <<>>

\* formatInputsValsAndWriteToLog(modifiedInputsParamForPost)
formatInputsValsAndWriteToLog ==
    /\ pc = "callback_log"
    /\ out' = out \o inputLines(modifiedInputsParamForPost)
    /\ events' = events \o PrintEvents(inputLines(modifiedInputsParamForPost))
    /\ pc' = "callback_outputs"
    /\ UNCHANGED <<args, handler, env, PAYLOAD, first, ctx, interruptedInFlight, ret,
                   body, resp, err, modifiedInputsParamForPost, outputsMap, jobStatus,
                   requests, answers, statusFile, outputs, writes, ios, diag>>

\* a variant of writesInputValues that leaves out the artifact of an empty map
writesInputValuesNonEmpty(m) == m # EmptyMap

\* whether writeToOutputs writes the approvalInputValues artifact: outputsMap is
\* made by formatInputsForPost and is never the nil map
writesInputValues(m) == TRUE

File(text) == [text |-> text]

\* a variant of writeToOutputs that goes on to write comments when the write of
\* approvalInputValues has failed
writeToOutputsKeepsGoing ==
    /\ pc = "callback_outputs"
    /\ \E io1 \in IoOutcomes, io2 \in IoOutcomes :
         LET outputBytes == MarshalMap(outputsMap)
             w1 == IF writesInputValues(outputsMap)
                   THEN writeAsOutput("approvalInputValues", outputBytes, io1)
                   ELSE [err |-> Nil, written |-> FALSE]
             w2 == writeAsOutput("comments", comments, io2)
             log1 == IF w1.written
                     THEN <<[file |-> "approvalInputValues", content |-> File(outputBytes)]>>
                     ELSE <<>>
             log2 == IF w2.written
                     THEN <<[file |-> "comments", content |-> File(comments)]>>
                     ELSE <<>>
         IN  /\ outputs' = [n \in DOMAIN outputs |->
                              IF n = "approvalInputValues" /\ w1.written
                              THEN File(outputBytes)
                              ELSE IF n = "comments" /\ w2.written
                              THEN File(comments)
                              ELSE outputs[n]]
             /\ writes' = writes \o log1 \o log2
             /\ ios' = ios
                    \o (IF writesInputValues(outputsMap) THEN OutputIo(io1) ELSE <<>>)
                    \o OutputIo(io2)
             /\ diag' = diag \o (IF w1.written
                                  THEN debugf("Approval Input Values in outputs: '%s'\n",
                                              <<outputBytes>>)
                                  ELSE <<>>)
             /\ events' = events
                    \o [i \in 1..Len(log1 \o log2) |-> Ev("write", (log1 \o log2)[i].file)]
             /\ IF w1.err # Nil THEN ret' = w1.err /\ pc' = "done"
                ELSE IF w2.err # Nil THEN ret' = w2.err /\ pc' = "done"
                ELSE ret' = ret /\ pc' = "callback_status"
    /\ UNCHANGED <<args, handler, env, PAYLOAD, first, ctx, interruptedInFlight, body,
                   resp, err, modifiedInputsParamForPost, outputsMap, jobStatus, out,
                   requests, answers, statusFile>>

\* writeToOutputs(outputsMap, comments): approvalInputValues, then comments
writeToOutputs ==
    /\ pc = "callback_outputs"
    /\ \E io1 \in IoOutcomes, io2 \in IoOutcomes :
         LET outputBytes == MarshalMap(outputsMap)
             w1 == IF writesInputValues(outputsMap)
                   THEN writeAsOutput("approvalInputValues", outputBytes, io1)
                   ELSE [err |-> Nil, written |-> FALSE]
             w2 == IF w1.err = Nil
                   THEN writeAsOutput("comments", comments, io2)
                   ELSE [err |-> Nil, written |-> FALSE]
             log1 == IF w1.written
                     THEN <<[file |-> "approvalInputValues", content |-> File(outputBytes)]>>
                     ELSE <<>>
             log2 == IF w2.written
                     THEN <<[file |-> "comments", content |-> File(comments)]>>
                     ELSE <<>>
         IN  /\ outputs' = [n \in DOMAIN outputs |->
                              IF n = "approvalInputValues" /\ w1.written
                              THEN File(outputBytes)
                              ELSE IF n = "comments" /\ w2.written
                              THEN File(comments)
                              ELSE outputs[n]]
             /\ writes' = writes \o log1 \o log2
             /\ ios' = ios
                    \o (IF writesInputValues(outputsMap) THEN OutputIo(io1) ELSE <<>>)
                    \o (IF w1.err = Nil THEN OutputIo(io2) ELSE <<>>)
             /\ diag' = diag \o (IF w1.written
                                  THEN debugf("Approval Input Values in outputs: '%s'\n",
                                              <<outputBytes>>)
                                  ELSE <<>>)
             /\ events' = events
                    \o [i \in 1..Len(log1 \o log2) |-> Ev("write", (log1 \o log2)[i].file)]
             /\ IF w1.err # Nil THEN ret' = w1.err /\ pc' = "done"
                ELSE IF w2.err # Nil THEN ret' = w2.err /\ pc' = "done"
                ELSE ret' = ret /\ pc' = "callback_status"
    /\ UNCHANGED <<args, handler, env, PAYLOAD, first, ctx, interruptedInFlight, body,
                   resp, err, modifiedInputsParamForPost, outputsMap, jobStatus, out,
                   requests, answers, statusFile>>

\* a variant of callbackWriteStatus that returns nil whether or not the record
\* could be written
callbackWriteStatusIgnoresError ==
    /\ pc = "callback_status"
    /\ \E io \in IoOutcomes :
         LET w == writeStatus(jobStatus,
                              "Successfully changed workflow manual approval status", io)
         IN  /\ statusFile' = IF w.written THEN w.content ELSE statusFile
             /\ writes' = writes \o StatusWriteLog(w)
             /\ ios' = ios \o StatusIo(io)
             /\ events' = events \o StatusWriteEvents(w)
             /\ ret' = Nil
    /\ pc' = "done"
    /\ UNCHANGED <<args, handler, env, PAYLOAD, first, ctx, interruptedInFlight, body,
                   resp, err, modifiedInputsParamForPost, outputsMap, jobStatus, out,
                   requests, answers, outputs, diag>>

\* the last statement of callback: the record of the mapped status
callbackWriteStatus ==
    /\ pc = "callback_status"
    /\ \E io \in IoOutcomes :
         LET w == writeStatus(jobStatus,
                              "Successfully changed workflow manual approval status", io)
         IN  /\ statusFile' = IF w.written THEN w.content ELSE statusFile
             /\ writes' = writes \o StatusWriteLog(w)
             /\ ios' = ios \o StatusIo(io)
             /\ events' = events \o StatusWriteEvents(w)
             /\ ret' = w.err
    /\ pc' = "done"
    /\ UNCHANGED <<args, handler, env, PAYLOAD, first, ctx, interruptedInFlight, body,
                   resp, err, modifiedInputsParamForPost, outputsMap, jobStatus, out,
                   requests, answers, outputs, diag>>

-----------------------------------------------------------------------------
(* The specification *)

NoOutputs == [n \in {"approvalInputValues", "comments"} |-> NoFile]

\* no invocation came before this one
NoRun == [none |-> TRUE]

InitCommon ==
    /\ pc = "run"
    /\ ret = Running
    /\ body = EmptyMap
    /\ resp = ""
    /\ err = Nil
    /\ modifiedInputsParamForPost = <<>>
    /\ outputsMap = EmptyMap
    /\ jobStatus = ""
    /\ out = <<>>
    /\ requests = <<>>
    /\ answers = <<>>
    /\ outputs = NoOutputs
    /\ writes = <<>>
    /\ events = <<>>
    /\ ctx = "active"
    /\ interruptedInFlight = FALSE
    /\ diag = <<>>
    /\ ios = <<>>
    /\ first = NoRun

\* the status file a callback or a cancel finds: the record init left
PriorStatusFile == IF Getenv("CLOUDBEES_STATUS") = "" THEN NoFile ELSE PendingRecord

InitInit ==
    /\ handler = "init"
    /\ args = <<>>
    /\ PAYLOAD = Unset
    /\ \E c \in CommonEnvs,
          d \in {"", "true", "invalid boolean"},
          n \in {"", "T", "0", "not a boolean"},
          a \in {"", "123,user@mail.com", " a,,a"},
          i \in {"", "# t"},
          p \in {"", "in1:\n  type: string"} :
         env = [c EXCEPT !["DISALLOW_LAUNCHED_BY_USER"] = d,
                         !["NOTIFY_ALL_ELIGIBLE_USERS"] = n,
                         !["APPROVERS"] = a, !["INSTRUCTIONS"] = i, !["INPUTS"] = p]
    /\ statusFile = NoFile

InitCallback ==
    /\ handler = "callback"
    /\ args = <<>>
    /\ PAYLOAD \in Payloads \cup OddPayloads
    /\ \E c \in CommonEnvs, o \in OutputsDirValues :
         env = [c EXCEPT !["CLOUDBEES_OUTPUTS"] = o]
    /\ statusFile = PriorStatusFile

InitCancel ==
    /\ handler = "cancel"
    /\ args = <<>>
    /\ PAYLOAD = Unset
    /\ \E c \in CommonEnvs, o \in OutputsDirValues, r \in ReasonValues :
         env = [c EXCEPT !["CLOUDBEES_OUTPUTS"] = o, !["CANCELLATION_REASON"] = r]
    /\ statusFile = PriorStatusFile

\* a handler name that selects nothing, or positional arguments
InitOther ==
    /\ handler \in HandlerValues
    /\ args \in {<<>>, <<"wrong">>, <<"a", "b">>}
    /\ handler \in {"init", "callback", "cancel"} => args # <<>>
    /\ PAYLOAD = Unset
    /\ env = [EmptyEnv EXCEPT !["URL"] = "http://test.com/", !["API_TOKEN"] = "test",
                              !["CLOUDBEES_STATUS"] = "/tmp/test-status-out",
                              !["CLOUDBEES_OUTPUTS"] = "/tmp/test-outputs",
                              !["CANCELLATION_REASON"] = "CANCELLED"]
    /\ statusFile = NoFile

Init == InitCommon /\ (InitInit \/ InitCallback \/ InitCancel \/ InitOther)

Next ==
    \/ run
    \/ Run
    \/ post
    \/ Do
    \/ interrupt
    \/ initBuildRequest
    \/ initPostFailed
    \/ initPostOk
    \/ callbackParse
    \/ callbackPostFailed
    \/ processApprovalStatus
    \/ formatInputsValsAndWriteToLog
    \/ writeToOutputs
    \/ callbackWriteStatus
    \/ cancelStart
    \/ cancelFinish

Spec == Init /\ [][Next]_vars

-----------------------------------------------------------------------------
(* Vocabulary of the properties *)

Done == pc = "done"

RECURSIVE Contains(_, _)
Contains(s, sub) ==
    IF Len(sub) > Len(s) THEN FALSE
    ELSE IF SubSeq(s, 1, Len(sub)) = sub THEN TRUE
    ELSE Contains(Tail(s), sub)

StartsWith(s, prefix) == Len(prefix) <= Len(s) /\ SubSeq(s, 1, Len(prefix)) = prefix

IsStatusWrite(w) == w.file = "status"

\* the status records this invocation has written, in order
StatusWrites == SelectSeq(writes, IsStatusWrite)

\* the names of the files this invocation has written, in order
WrittenFiles == [i \in 1..Len(writes) |-> writes[i].file]

\* Client.Do has answered with an HTTP response whose status code is not 200
Non200 == Len(answers) = 1 /\ answers[1].neterr = "" /\ answers[1].code # 200

\* Client.Do has answered with an HTTP response whose status code is 200
Got200 == Len(answers) = 1 /\ answers[1].neterr = "" /\ answers[1].code = 200

StatusMissing == "CLOUDBEES_STATUS environment variable missing"
OutputsMissing == "CLOUDBEES_OUTPUTS environment variable missing"

\* an error of writeStatus: the variable is unset or the file cannot be written
IsStatusWriteError(e) ==
    \/ e = StatusMissing
    \/ /\ Getenv("CLOUDBEES_STATUS") # ""
       /\ StartsWith(e, "failed to write to /tmp/test-status-out: ")

\* an error of writeAsOutput
IsOutputWriteError(e) ==
    \/ e = OutputsMissing
    \/ /\ Getenv("CLOUDBEES_OUTPUTS") # ""
       /\ StartsWith(e, "failed to write to /tmp/test-outputs/")

\* the last two printed lines show the error of post and the response text
PrintedPostError ==
    /\ Len(out) >= 2
    /\ Contains(out[Len(out) - 1], err)
    /\ StartsWith(out[Len(out) - 1], "ERROR: ")
    /\ Contains(out[Len(out)], answers[1].body)
    /\ StartsWith(out[Len(out)], "ERROR: API response: ")

\* exactly one status record was written: FAILED, the message embedding the error
WroteFailedWith(e) ==
    /\ Len(StatusWrites) = 1
    /\ StatusWrites[1].content.status = "FAILED"
    /\ Contains(StatusWrites[1].content.message, e)
    /\ statusFile = StatusWrites[1].content

\* the names of the files an invocation may write
WrittenFileSet == {"status", "approvalInputValues", "comments"}

\* exactly one status record was written: FAILED, the message embedding the text
WroteFailedWithText(text) ==
    /\ Len(StatusWrites) = 1
    /\ StatusWrites[1].content.status = "FAILED"
    /\ Contains(StatusWrites[1].content.message, text)
    /\ statusFile = StatusWrites[1].content

-----------------------------------------------------------------------------
(* C1 *)

\* C1, as stated: after a non-200 response every handler (init, callback, cancel)
\* has printed the error and the response text, has written a FAILED status record
\* whose message embeds the error, and returns that error.
C1_AsStated ==
    (Done /\ Non200) =>
        /\ err # Nil
        /\ PrintedPostError
        /\ WroteFailedWith(err)
        /\ ret = err

\* C1, amended: after a non-200 response every handler has printed the error and
\* the response text; cancel writes no status record and returns the error; init and
\* callback either write the FAILED record embedding the error and return the error,
\* or, when the status write fails, write nothing and return the error of the write.
C1_NonOkResponse ==
    (Done /\ Non200) =>
        /\ err # Nil
        /\ PrintedPostError
        /\ handler = "cancel" => (StatusWrites = <<>> /\ ret = err)
        /\ handler \in {"init", "callback"} =>
              \/ WroteFailedWith(err) /\ ret = err
              \/ StatusWrites = <<>> /\ IsStatusWriteError(ret) /\ ret # err

C1_Witness ==
    /\ Done /\ Non200 /\ handler = "callback"
    /\ answers[1].code = 500
    /\ WroteFailedWith(err)
    /\ ret = err

-----------------------------------------------------------------------------
(* C2 *)

SuccessMessage == "Successfully changed workflow manual approval status"

\* the status of the payload a callback has parsed
PayloadStatus == PAYLOAD.o["status"].s

\* the invocation wrote exactly one status record, this one, and nothing after it
FinalRecordIs(status, message) ==
    /\ StatusWrites = <<[file |-> "status",
                         content |-> [status |-> status, message |-> message]]>>
    /\ statusFile = [status |-> status, message |-> message]
    /\ writes[Len(writes)].file = "status"

\* only the payload status APPROVED gives an APPROVED record, only REJECTED a
\* REJECTED one
OnlyMappedStatuses ==
    \A i \in 1..Len(StatusWrites) :
        /\ StatusWrites[i].content.status = "APPROVED" =>
              handler = "callback" /\ PayloadStatus = Approved
        /\ StatusWrites[i].content.status = "REJECTED" =>
              handler = "callback" /\ PayloadStatus = Rejected

\* C2, as stated: a callback that got a 200 response ends with the record APPROVED
\* (payload status APPROVED) or REJECTED (payload status REJECTED), message
\* "Successfully changed workflow manual approval status", and returns no error;
\* no other payload status gives an APPROVED or REJECTED record.
C2_AsStated ==
    /\ OnlyMappedStatuses
    /\ (handler = "callback" /\ Done /\ Got200) =>
          /\ PayloadStatus = Approved =>
                FinalRecordIs("APPROVED", SuccessMessage) /\ ret = Nil
          /\ PayloadStatus = Rejected =>
                FinalRecordIs("REJECTED", SuccessMessage) /\ ret = Nil

\* C2, amended: a callback that got a 200 response with payload status APPROVED or
\* REJECTED either ends with that record, message "Successfully changed workflow
\* manual approval status", and returns no error, or, when writing an output
\* artifact or the status file fails, returns the error of that write and writes
\* no status record; no other payload status gives an APPROVED or REJECTED record.
C2_MappedOutcome ==
    /\ OnlyMappedStatuses
    /\ (handler = "callback" /\ Done /\ Got200
            /\ PayloadStatus \in {Approved, Rejected}) =>
          \/ /\ ret = Nil
             /\ FinalRecordIs(IF PayloadStatus = Approved THEN "APPROVED"
                              ELSE "REJECTED", SuccessMessage)
          \/ /\ IsOutputWriteError(ret) \/ IsStatusWriteError(ret)
             /\ StatusWrites = <<>>

C2_Witness ==
    /\ handler = "callback" /\ Done /\ Got200
    /\ PayloadStatus = Rejected
    /\ FinalRecordIs("REJECTED", SuccessMessage)
    /\ ret = Nil

-----------------------------------------------------------------------------
(* C3 *)

UnexpectedText == "Unexpected approval status '" \o PayloadStatus \o "'"

\* a callback whose payload status is neither APPROVED nor REJECTED got a 200
UnexpectedAfter200 ==
    /\ handler = "callback" /\ Done /\ Got200
    /\ PayloadStatus \notin {Approved, Rejected}

\* the request went out before anything was printed, with the payload's status
PostedFirst ==
    /\ Len(requests) = 1
    /\ requests[1].body["status"] = JStr(PayloadStatus)
    /\ events[1].kind = "post"

\* nothing but the unexpected-status line was printed, no artifact was written
OnlyUnexpectedLine ==
    /\ out = <<"ERROR: " \o UnexpectedText \o "\n">>
    /\ \A i \in 1..Len(writes) : writes[i].file = "status"
    /\ outputs = NoOutputs

\* C3, as stated: an unexpected payload status is POSTed first; after the 200 the
\* handler prints the unexpected-status error, writes FAILED with the message
\* "Unexpected approval status '<status>'", returns an error of that text, writes
\* no output artifact and prints no approval or input-parameter line.
C3_AsStated ==
    UnexpectedAfter200 =>
        /\ PostedFirst
        /\ OnlyUnexpectedLine
        /\ FinalRecordIs("FAILED", UnexpectedText)
        /\ ret = UnexpectedText

\* C3, amended: as stated, except that when the write of the FAILED record fails
\* no record is written and the error of the write is returned instead.
C3_UnexpectedStatus ==
    UnexpectedAfter200 =>
        /\ PostedFirst
        /\ OnlyUnexpectedLine
        /\ \/ FinalRecordIs("FAILED", UnexpectedText) /\ ret = UnexpectedText
           \/ writes = <<>> /\ IsStatusWriteError(ret)

C3_Witness ==
    /\ UnexpectedAfter200
    /\ FinalRecordIs("FAILED", UnexpectedText)
    /\ ret = UnexpectedText
    /\ PayloadStatus = "UPDATE_MANUAL_APPROVAL_STATUS_UNSPECIFIED"

-----------------------------------------------------------------------------
(* C4 *)

BoolTexts == {"1", "t", "T", "TRUE", "true", "True",
              "0", "f", "F", "FALSE", "false", "False"}

\* the variable is set to a text that is no boolean
Malformed(name) == Getenv(name) # "" /\ Getenv(name) \notin BoolTexts

ParseErrorOf(name) ==
    "strconv.ParseBool: parsing \"" \o Getenv(name) \o "\": invalid syntax"

\* C4: an init with a malformed DISALLOW_LAUNCHED_BY_USER or
\* NOTIFY_ALL_ELIGIBLE_USERS sends no request, prints nothing and writes no file,
\* and returns the parse error of the first malformed flag; an empty or unset flag
\* is sent as false.
C4_MalformedBoolean ==
    handler = "init" =>
        /\ (Malformed("DISALLOW_LAUNCHED_BY_USER")
                \/ Malformed("NOTIFY_ALL_ELIGIBLE_USERS")) =>
              /\ requests = <<>> /\ out = <<>> /\ writes = <<>>
              /\ statusFile = NoFile
              /\ pc \in {"run", "Run", "init", "done"}
              /\ Done =>
                    ret = IF Malformed("DISALLOW_LAUNCHED_BY_USER")
                          THEN ParseErrorOf("DISALLOW_LAUNCHED_BY_USER")
                          ELSE ParseErrorOf("NOTIFY_ALL_ELIGIBLE_USERS")
        /\ \A i \in 1..Len(requests) :
              /\ Getenv("DISALLOW_LAUNCHED_BY_USER") = "" =>
                    requests[i].body["disallowLaunchedByUser"] = JBool(FALSE)
              /\ Getenv("NOTIFY_ALL_ELIGIBLE_USERS") = "" =>
                    requests[i].body["notifyEligibleUsers"] = JBool(FALSE)

C4_Witness ==
    /\ handler = "init" /\ Done
    /\ Getenv("DISALLOW_LAUNCHED_BY_USER") = "true"
    /\ Malformed("NOTIFY_ALL_ELIGIBLE_USERS")
    /\ ret = "strconv.ParseBool: parsing \"not a boolean\": invalid syntax"

-----------------------------------------------------------------------------
(* Reading an artifact back: the JSON object of a text, as a consumer of the    *)
(* approvalInputValues output decodes it                                        *)

DigitValue(c) ==
    CASE c = "0" -> 0 [] c = "1" -> 1 [] c = "2" -> 2 [] c = "3" -> 3 [] c = "4" -> 4
      [] c = "5" -> 5 [] c = "6" -> 6 [] c = "7" -> 7 [] c = "8" -> 8 [] c = "9" -> 9

IsDigit(c) == c \in {"0", "1", "2", "3", "4", "5", "6", "7", "8", "9"}

\* the text after the opening quote of a string: the string and what follows it
RECURSIVE ReadString(_, _)
ReadString(s, acc) ==
    IF Head(s) = "\"" THEN [v |-> acc, rest |-> Tail(s)]
    ELSE IF Head(s) = "\\"
    THEN LET c == Head(Tail(s)) IN
         IF c = "n" THEN ReadString(Tail(Tail(s)), acc \o "\n")
         ELSE IF c = "u"
         THEN LET hex == SubSeq(s, 3, 6)
                  ch == CASE hex = "003c" -> "<" [] hex = "003e" -> ">"
                          [] hex = "0026" -> "&"
              IN  ReadString(SubSeq(s, 7, Len(s)), acc \o ch)
         ELSE ReadString(Tail(Tail(s)), acc \o c)
    ELSE ReadString(Tail(s), acc \o Head(s))

RECURSIVE ReadDigits(_, _)
ReadDigits(s, acc) ==
    IF Len(s) > 0 /\ IsDigit(Head(s))
    THEN ReadDigits(Tail(s), 10 * acc + DigitValue(Head(s)))
    ELSE [v |-> acc, rest |-> s]

\* a value at the head of the text: the value and what follows it
RECURSIVE ReadValue(_), ReadElements(_, _)
ReadValue(s) ==
    IF Head(s) = "["
    THEN LET r == ReadElements(Tail(s), <<>>) IN [v |-> JArr(r.v), rest |-> r.rest]
    ELSE IF StartsWith(s, "{}")
    THEN [v |-> JObj([k \in {} |-> JNull]), rest |-> SubSeq(s, 3, Len(s))]
    ELSE IF Head(s) = "\""
    THEN LET r == ReadString(Tail(s), "") IN [v |-> JStr(r.v), rest |-> r.rest]
    ELSE IF StartsWith(s, "true")
    THEN [v |-> JBool(TRUE), rest |-> SubSeq(s, 5, Len(s))]
    ELSE IF StartsWith(s, "false")
    THEN [v |-> JBool(FALSE), rest |-> SubSeq(s, 6, Len(s))]
    ELSE IF StartsWith(s, "null")
    THEN [v |-> JNull, rest |-> SubSeq(s, 5, Len(s))]
    ELSE IF Head(s) = "-"
    THEN LET r == ReadDigits(Tail(s), 0) IN [v |-> JNum(0 - r.v), rest |-> r.rest]
    ELSE LET r == ReadDigits(s, 0) IN [v |-> JNum(r.v), rest |-> r.rest]

\* the elements of a list, the text standing after "[" or after a comma
ReadElements(s, acc) ==
    IF Head(s) = "]" THEN [v |-> acc, rest |-> Tail(s)]
    ELSE LET r == ReadValue(s)
         IN  IF Head(r.rest) = ","
             THEN ReadElements(Tail(r.rest), Append(acc, r.v))
             ELSE ReadElements(r.rest, Append(acc, r.v))

\* the members of an object, the text standing after "{" or after a comma
RECURSIVE ReadMembers(_, _)
ReadMembers(s, acc) ==
    IF Head(s) = "}" THEN acc
    ELSE LET key == ReadString(Tail(s), "")
             val == ReadValue(Tail(key.rest))
             got == (key.v :> val.v) @@ acc
         IN  IF Head(val.rest) = "," THEN ReadMembers(Tail(val.rest), got) ELSE got

ReadObject(text) == ReadMembers(Tail(text), EmptyMap)

-----------------------------------------------------------------------------
(* C5 *)

\* a callback whose payload carries a non-empty inputs list has converted it
ConvertedInputs ==
    /\ handler = "callback"
    /\ pc \in {"callback_post", "callback_resp", "callback_log", "callback_outputs",
               "callback_status"} \/ (Done /\ ret # Panic /\ body # EmptyMap)
    /\ "inputs" \in DOMAIN PAYLOAD.o
    /\ PAYLOAD.o["inputs"].t = "array"
    /\ Len(PAYLOAD.o["inputs"].a) > 0

\* the inputs of the payload as the environment gave them
GivenInputs == PAYLOAD.o["inputs"].a

\* the text is the string coercion of the value: a string unchanged, a number as
\* decimal text that reads back as the number, a boolean as "true" or "false"
IsCoercionOf(text, value) ==
    /\ value.t = "string" => text = value.s
    /\ value.t = "number" =>
          ReadValue(text) = [v |-> JNum(value.n), rest |-> ""]
    /\ value.t = "bool" => text = (IF value.b THEN "true" ELSE "false")

\* the inputs of the request body carry the coerced values, everything else as given
SentCoerced ==
    /\ body["inputs"].t = "array"
    /\ Len(body["inputs"].a) = Len(GivenInputs)
    /\ \A i \in 1..Len(GivenInputs) :
          /\ body["inputs"].a[i].o["value"].t = "string"
          /\ IsCoercionOf(body["inputs"].a[i].o["value"].s, GivenInputs[i].o["value"])
    /\ \A i \in 1..Len(requests) : requests[i].body = body

\* entry i is not followed by an entry of the same name
LastOfItsName(i) ==
    \A j \in (i + 1)..Len(GivenInputs) :
        GivenInputs[j].o["name"] # GivenInputs[i].o["name"]

\* the value of entry i, type and all, is what the output map and, once written,
\* the approvalInputValues artifact hold under the entry's name
ReadsBack(i) ==
    LET name == GivenInputs[i].o["name"].s
        value == GivenInputs[i].o["value"]
    IN  /\ name \in DOMAIN outputsMap
        /\ outputsMap[name] = value
        /\ outputs["approvalInputValues"] # NoFile =>
              /\ name \in DOMAIN ReadObject(outputs["approvalInputValues"].text)
              /\ ReadObject(outputs["approvalInputValues"].text)[name] = value

\* C5, as stated: for every entry of a non-empty inputs list the POST carries the
\* string coercion of its value, and the output map and the approvalInputValues
\* artifact hold, under the entry's name, the entry's value in its original type.
C5_AsStated ==
    ConvertedInputs =>
        /\ SentCoerced
        /\ \A i \in 1..Len(GivenInputs) : ReadsBack(i)

\* C5, amended: the POST carries the string coercion of every entry's value; the
\* output map and the approvalInputValues artifact hold the original value, type
\* and all, of every entry that no later entry of the same name follows (of
\* entries that share a name only the last is kept).
C5_TypedRoundTrip ==
    ConvertedInputs =>
        /\ SentCoerced
        /\ \A i \in 1..Len(GivenInputs) : LastOfItsName(i) => ReadsBack(i)

C5_Witness ==
    /\ ConvertedInputs
    /\ Len(GivenInputs) = 2
    /\ GivenInputs[1].o["value"] = JBool(TRUE)
    /\ GivenInputs[2].o["value"] = JNum(-12)
    /\ outputs["approvalInputValues"] = File("{\"n1\":true,\"n2\":-12}")
    /\ requests[1].body["inputs"].a[2].o["value"] = JStr("-12")

-----------------------------------------------------------------------------
(* C6 *)

\* the payload of a callback carries no inputs: absent, null or the empty list
NoInputs ==
    \/ "inputs" \notin DOMAIN PAYLOAD.o
    \/ PAYLOAD.o["inputs"].t = "null"
    \/ PAYLOAD.o["inputs"].t = "array" /\ Len(PAYLOAD.o["inputs"].a) = 0

\* this invocation has written the file
Wrote(file) == \E i \in 1..Len(writes) : writes[i].file = file

\* a callback got a 200 response for a payload whose status is APPROVED or REJECTED
MappedAfter200 ==
    /\ handler = "callback" /\ Got200
    /\ PayloadStatus \in {Approved, Rejected}

\* C6, as stated: callback writes approvalInputValues only if the captured map is
\* non-empty; with the inputs absent, null or empty no such file is written.
C6_AsStated ==
    (handler = "callback" /\ Wrote("approvalInputValues")) =>
        outputsMap # EmptyMap /\ ~NoInputs

\* C6, amended: callback writes approvalInputValues whether or not the captured
\* map is empty.  A callback that got a 200 response for an APPROVED or REJECTED
\* payload writes it before every other file, and ends without it only when that
\* write failed; with the inputs absent, null or empty the file holds "{}".
C6_InputValuesWritten ==
    /\ Wrote("approvalInputValues") =>
          /\ handler = "callback"
          /\ writes[1].file = "approvalInputValues"
          /\ NoInputs => /\ outputsMap = EmptyMap
                         /\ outputs["approvalInputValues"] = File("{}")
    /\ (Wrote("comments") \/ pc = "callback_status") => Wrote("approvalInputValues")
    /\ (MappedAfter200 /\ Done /\ ~Wrote("approvalInputValues")) =>
          IsOutputWriteError(ret) /\ writes = <<>>

C6_Witness ==
    /\ MappedAfter200 /\ Done
    /\ "inputs" \in DOMAIN PAYLOAD.o
    /\ PAYLOAD.o["inputs"] = JNull
    /\ outputs["approvalInputValues"] = File("{}")
    /\ ret = Nil

-----------------------------------------------------------------------------
(* C7 *)

PayloadComments == PAYLOAD.o["comments"].s

\* this invocation has written an APPROVED or a REJECTED record
EndedMapped ==
    /\ handler = "callback"
    /\ \E i \in 1..Len(StatusWrites) :
          StatusWrites[i].content.status \in {"APPROVED", "REJECTED"}

\* the names of the inputs of the payload
GivenNames == {GivenInputs[i].o["name"].s : i \in 1..Len(GivenInputs)}

\* C7: a callback that ends APPROVED or REJECTED has written both artifacts before
\* the record: comments holds the comments of the payload (also when empty),
\* approvalInputValues the object of the original-typed values, "{}" without inputs.
C7_ArtifactsOnSuccess ==
    EndedMapped =>
        /\ WrittenFiles = <<"approvalInputValues", "comments", "status">>
        /\ writes[2].content = File(PayloadComments)
        /\ outputs["comments"] = File(PayloadComments)
        /\ outputs["approvalInputValues"] = writes[1].content
        /\ NoInputs => outputs["approvalInputValues"] = File("{}")
        /\ ~NoInputs =>
              /\ DOMAIN ReadObject(outputs["approvalInputValues"].text) = GivenNames
              /\ \A i \in 1..Len(GivenInputs) : LastOfItsName(i) => ReadsBack(i)

C7_Witness ==
    /\ EndedMapped /\ Done
    /\ PayloadComments = ""
    /\ outputs["comments"] = File("")
    /\ "inputs" \notin DOMAIN PAYLOAD.o
    /\ outputs["approvalInputValues"] = File("{}")
    /\ statusFile.status = "APPROVED"

-----------------------------------------------------------------------------
(* C8 *)

\* cancel has been selected and has read CANCELLATION_REASON
CancelPast == handler = "cancel" /\ pc \in {"cancel_post", "cancel_resp", "done"}
                /\ Len(args) = 0

\* cancel has printed the two lines and then, if at all, sent this status only
CancelSent(status, line1, line2) ==
    /\ body = [status |-> JStr(status)]
    /\ Len(out) >= 2 /\ out[1] = line1 /\ out[2] = line2
    /\ Len(events) >= 2 /\ events[1].kind = "print" /\ events[2].kind = "print"
    /\ \A i \in 1..Len(requests) : requests[i].body = [status |-> JStr(status)]

\* C8: cancel sends {status: ..._ABORTED} for the reason "CANCELLED" and
\* {status: ..._TIMED_OUT} for every other non-empty reason, the matching two lines
\* printed before the POST; without a reason it returns "CANCELLATION_REASON
\* environment variable missing" and neither prints nor sends.
C8_CancelBody ==
    /\ (handler = "cancel" /\ Getenv("CANCELLATION_REASON") = "") =>
          /\ out = <<>> /\ requests = <<>> /\ events = <<>>
          /\ pc \notin {"cancel_post", "cancel_resp"}
          /\ (Done /\ Len(args) = 0) =>
                ret = "CANCELLATION_REASON environment variable missing"
    /\ (CancelPast /\ Getenv("CANCELLATION_REASON") = "CANCELLED") =>
          CancelSent("UPDATE_MANUAL_APPROVAL_STATUS_ABORTED",
                     "Workflow aborted by user\n",
                     "Cancelling the manual approval request\n")
    /\ (CancelPast /\ Getenv("CANCELLATION_REASON") \notin {"", "CANCELLED"}) =>
          CancelSent("UPDATE_MANUAL_APPROVAL_STATUS_TIMED_OUT",
                     "Workflow timed out\n",
                     "Workflow approval response was not received within allotted time.\n")

C8_Witness ==
    /\ CancelPast /\ Done
    /\ Getenv("CANCELLATION_REASON") = "cancelled"
    /\ Len(requests) = 1
    /\ requests[1].body = [status |-> JStr("UPDATE_MANUAL_APPROVAL_STATUS_TIMED_OUT")]
    /\ events[3].kind = "post"
    /\ ret = Nil

-----------------------------------------------------------------------------
(* C9 *)

\* C9: cancel writes no file on any path and leaves the status file as it found
\* it; init writes no output artifact; the only files an invocation writes are the
\* status file and, in callback only, comments and approvalInputValues.
C9_ArtifactFrame ==
    /\ handler = "cancel" =>
          /\ writes = <<>>
          /\ outputs = NoOutputs
          /\ statusFile \in {NoFile, PendingRecord}
          /\ Len(args) = 0 => statusFile = PriorStatusFile
    /\ handler # "callback" => outputs = NoOutputs
    /\ \A i \in 1..Len(writes) :
          /\ writes[i].file \in {"status", "approvalInputValues", "comments"}
          /\ writes[i].file # "status" => handler = "callback"
          /\ handler \in {"init", "callback"}
    /\ \A i \in 1..Len(events) :
          events[i].kind = "write" => events[i].arg \in WrittenFileSet

C9_Witness ==
    /\ handler = "cancel" /\ Done /\ Non200
    /\ Getenv("CLOUDBEES_STATUS") # "" /\ Getenv("CLOUDBEES_OUTPUTS") # ""
    /\ ret = err
    /\ statusFile = PendingRecord
    /\ writes = <<>>

-----------------------------------------------------------------------------
(* C10 *)

MissingText(name) == name \o " environment variable missing"

\* the first of the names, in this order, whose variable is unset; "" if none is
RECURSIVE FirstMissing(_)
FirstMissing(names) ==
    IF Len(names) = 0 THEN ""
    ELSE IF Head(names) = "PAYLOAD"
    THEN (IF PAYLOAD = Unset THEN "PAYLOAD" ELSE FirstMissing(Tail(names)))
    ELSE IF Getenv(Head(names)) = "" THEN Head(names)
    ELSE FirstMissing(Tail(names))

\* how many of the names are unset
RECURSIVE CountMissing(_)
CountMissing(names) ==
    IF Len(names) = 0 THEN 0
    ELSE (IF FirstMissing(<<Head(names)>>) # "" THEN 1 ELSE 0)
            + CountMissing(Tail(names))

\* the order in which the spec lists the required variables of the handler
DocumentedOrder ==
    CASE handler = "init" -> <<"URL", "API_TOKEN", "CLOUDBEES_STATUS">>
      [] handler = "callback" -> <<"PAYLOAD", "URL", "API_TOKEN">>
      [] handler = "cancel" -> <<"CANCELLATION_REASON", "URL", "API_TOKEN">>

\* a handler has returned, its other inputs well-formed, with several of its
\* required variables unset
SeveralMissing ==
    /\ handler \in {"init", "callback", "cancel"} /\ Len(args) = 0 /\ Done
    /\ handler = "init" => ~Malformed("DISALLOW_LAUNCHED_BY_USER")
                           /\ ~Malformed("NOTIFY_ALL_ELIGIBLE_USERS")
    /\ handler = "callback" => PAYLOAD \in Payloads \cup {Unset}
    /\ CountMissing(DocumentedOrder) >= 2

\* C10, as stated: with several required variables unset the error returned names
\* the first unset one in the documented order of the handler.
C10_AsStated ==
    SeveralMissing => ret = MissingText(FirstMissing(DocumentedOrder))

\* the handler found URL or API_TOKEN unset and tried to record FAILED
RecordsPostError ==
    /\ handler \in {"init", "callback"}
    /\ FirstMissing(DocumentedOrder) \in {"URL", "API_TOKEN"}

\* C10, amended: the error returned names the first unset variable in the
\* documented order, except that init and callback, when URL or API_TOKEN is the
\* first one unset, return the error of the status write if the FAILED record
\* cannot be written (CLOUDBEES_STATUS unset as well, or the file not writable).
C10_FirstMissing ==
    SeveralMissing =>
        /\ requests = <<>>
        /\ ~RecordsPostError => ret = MissingText(FirstMissing(DocumentedOrder))
        /\ RecordsPostError =>
              \/ /\ ret = MissingText(FirstMissing(DocumentedOrder))
                 /\ WroteFailedWithText(MissingText(FirstMissing(DocumentedOrder)))
              \/ /\ IsStatusWriteError(ret)
                 /\ writes = <<>>
                 /\ Getenv("CLOUDBEES_STATUS") = "" => ret = StatusMissing

C10_Witness ==
    /\ SeveralMissing /\ handler = "init"
    /\ Getenv("URL") = "" /\ Getenv("API_TOKEN") = ""
    /\ Getenv("CLOUDBEES_STATUS") # ""
    /\ ret = "URL environment variable missing"
    /\ statusFile.status = "FAILED"

-----------------------------------------------------------------------------
(* C11 *)

\* a handler was selected, without positional arguments
Selected == handler \in {"init", "callback", "cancel"} /\ Len(args) = 0

\* URL or API_TOKEN is unset, or URL is no URL
BadEndpoint ==
    Getenv("URL") = "" \/ Getenv("API_TOKEN") = "" \/ Head(Getenv("URL")) = ":"

\* a variable the handler reads before it sends its request is missing or malformed
EarlyConfigError ==
    /\ Selected
    /\ \/ BadEndpoint
       \/ handler = "init" /\ (Malformed("DISALLOW_LAUNCHED_BY_USER")
                                 \/ Malformed("NOTIFY_ALL_ELIGIBLE_USERS"))
       \/ handler = "callback" /\ PAYLOAD \notin Payloads
       \/ handler = "cancel" /\ Getenv("CANCELLATION_REASON") = ""

\* the directory or file of a write the handler makes is not named
LateConfigError ==
    /\ Selected
    /\ \/ handler \in {"init", "callback"} /\ Getenv("CLOUDBEES_STATUS") = ""
       \/ handler = "callback" /\ Getenv("CLOUDBEES_OUTPUTS") = ""

-----------------------------------------------------------------------------
(* C12 *)

\* the error e was to be recorded: either the FAILED record embedding it was
\* written and e is returned, or the write failed, nothing was written and the
\* error of the write is returned
RecordedOrWriteError(e) ==
    \/ /\ WroteFailedWith(e)
       /\ ret = e
    \/ /\ StatusWrites = <<>>
       /\ IsStatusWriteError(ret)
       /\ ret # e
       /\ statusFile = (IF handler = "callback" THEN PriorStatusFile ELSE NoFile)

\* C12: in init and callback, when post has failed and the write of the FAILED
\* record fails too, the error of the status write is returned in place of the
\* error of post; when the write succeeds the error of post is returned unchanged.
\* The unexpected-status error of callback is treated the same way.
C12_WriteErrorPrecedence ==
    /\ (handler \in {"init", "callback"} /\ Done /\ err # Nil) =>
          /\ RecordedOrWriteError(err)
          /\ Getenv("CLOUDBEES_STATUS") = "" => ret = StatusMissing
    /\ UnexpectedAfter200 =>
          /\ RecordedOrWriteError(UnexpectedText)
          /\ Getenv("CLOUDBEES_STATUS") = "" => ret = StatusMissing

C12_Witness ==
    /\ handler = "init" /\ Done /\ Non200
    /\ err # Nil
    /\ Getenv("CLOUDBEES_STATUS") # ""
    /\ StatusWrites = <<>>
    /\ StartsWith(ret, "failed to write to /tmp/test-status-out: ")

-----------------------------------------------------------------------------
(* C13 *)

\* an init has parsed its two flags and has returned
InitPastFlags ==
    /\ handler = "init" /\ Len(args) = 0 /\ Done
    /\ ~Malformed("DISALLOW_LAUNCHED_BY_USER")
    /\ ~Malformed("NOTIFY_ALL_ELIGIBLE_USERS")

\* this invocation has written a status record of one of the statuses, and the
\* status file holds it
EndedWithRecord(statuses) ==
    /\ StatusWrites # <<>>
    /\ StatusWrites[Len(StatusWrites)].content.status \in statuses
    /\ statusFile = StatusWrites[Len(StatusWrites)].content

\* the answer was a 200 whose text is no ApprovalResponse
UndecodableAnswer == Got200 /\ DecodeApprovalResponse(answers[1].body).err # Nil

\* C13, as stated: every init that passes the parsing of its flags ends having
\* written a record PENDING_APPROVAL or FAILED; in particular after a 200 response
\* whose text cannot be decoded, and with URL or API_TOKEN missing.
C13_AsStated ==
    InitPastFlags => EndedWithRecord({"PENDING_APPROVAL", "FAILED"})

\* an init whose status file is named got an undecodable 200 and returned the
\* error of the decoding, the status file never written
C13_DecodeFailure ==
    /\ InitPastFlags /\ UndecodableAnswer
    /\ Getenv("CLOUDBEES_STATUS") # ""
    /\ writes = <<>> /\ statusFile = NoFile
    /\ ret = DecodeApprovalResponse(answers[1].body).err

-----------------------------------------------------------------------------
(* C14 *)

\* a callback has parsed its payload, has called the HTTP client and has returned
CallbackPosted ==
    /\ handler = "callback" /\ Len(args) = 0 /\ Done
    /\ Len(requests) = 1

\* C14, as stated: every callback that has parsed its payload and attempted the
\* POST ends having written a record APPROVED, REJECTED or FAILED, so the status
\* file no longer holds the PENDING_APPROVAL record of init, also when the write
\* of an output artifact fails (CLOUDBEES_OUTPUTS unset).
C14_AsStated ==
    CallbackPosted =>
        /\ EndedWithRecord({"APPROVED", "REJECTED", "FAILED"})
        /\ statusFile # PendingRecord

\* a callback whose status file is named got a 200 for an APPROVED payload, found
\* CLOUDBEES_OUTPUTS unset and returned that error, the status file still holding
\* the record of init
C14_OutputFailure ==
    /\ CallbackPosted /\ Got200
    /\ PayloadStatus = Approved
    /\ Getenv("CLOUDBEES_STATUS") # "" /\ Getenv("CLOUDBEES_OUTPUTS") = ""
    /\ ret = OutputsMissing
    /\ writes = <<>>
    /\ statusFile = PendingRecord

-----------------------------------------------------------------------------
(* C15 *)

\* an init got a 200 whose text is an ApprovalResponse, and has returned
InitDecoded200 ==
    /\ handler = "init" /\ Done /\ Got200
    /\ answers[1].body \in {ApproversBody, "{}"}

\* the line of the approvers, for the two decodable responses of the model
WaitingLine ==
    "Waiting for approval from one of the following: "
        \o (IF answers[1].body = ApproversBody THEN "u1,u2" ELSE "") \o "\n"

\* the lines a successful init prints: the approvers, then the instructions if any
ExpectedInitLines ==
    IF Getenv("INSTRUCTIONS") = "" THEN <<WaitingLine>>
    ELSE <<WaitingLine, "Instructions:\n<h1>t</h1>\n\n">>

\* the events of the invocation are the request, the prints of the lines and then,
\* if wanted, the write of the status file
EventsInOrder(lines, withWrite) ==
    /\ Len(events) = 1 + Len(lines) + (IF withWrite THEN 1 ELSE 0)
    /\ events[1].kind = "post"
    /\ \A i \in 1..Len(lines) : events[1 + i] = Ev("print", lines[i])
    /\ withWrite => events[Len(events)] = Ev("write", "status")

\* PENDING_APPROVAL is written only by an init that got a decodable 200
PendingOnlyAfterDecoded200 ==
    \A i \in 1..Len(writes) :
        (writes[i].file = "status"
            /\ writes[i].content.status = "PENDING_APPROVAL") =>
                /\ handler = "init" /\ Got200
                /\ answers[1].body \in {ApproversBody, "{}"}
                /\ writes = <<[file |-> "status", content |-> PendingRecord]>>
                /\ events[Len(events)] = Ev("write", "status")

\* C15, as stated: on a 200 response init decodes it, prints the line of the
\* approver names comma-joined in the order of the response, then the rendered
\* instructions only if INSTRUCTIONS is non-empty, and only after that writes
\* {PENDING_APPROVAL, "Waiting for approval from approvers"}; PENDING_APPROVAL is
\* never written without a 200 response that decoded.
C15_AsStated ==
    /\ PendingOnlyAfterDecoded200
    /\ InitDecoded200 =>
          /\ out = ExpectedInitLines
          /\ EventsInOrder(ExpectedInitLines, TRUE)
          /\ statusFile = PendingRecord

\* C15, amended: as stated, except that the write of the record can fail
\* (CLOUDBEES_STATUS unset or the file not writable): the lines are printed all
\* the same, no record is written and the error of the write is returned.
C15_PendingAfterPrints ==
    /\ PendingOnlyAfterDecoded200
    /\ InitDecoded200 =>
          /\ out = ExpectedInitLines
          /\ \/ /\ EventsInOrder(ExpectedInitLines, TRUE)
                /\ statusFile = PendingRecord
                /\ writes = <<[file |-> "status", content |-> PendingRecord]>>
                /\ ret = Nil
             \/ /\ EventsInOrder(ExpectedInitLines, FALSE)
                /\ writes = <<>> /\ statusFile = NoFile
                /\ IsStatusWriteError(ret)

C15_Witness ==
    /\ InitDecoded200
    /\ answers[1].body = ApproversBody
    /\ Getenv("INSTRUCTIONS") = "# t"
    /\ out = <<"Waiting for approval from one of the following: u1,u2\n",
               "Instructions:\n<h1>t</h1>\n\n">>
    /\ statusFile = PendingRecord
    /\ ret = Nil

-----------------------------------------------------------------------------
(* C16 *)

\* the texts the two flags are true for
TrueTexts == {"1", "t", "T", "TRUE", "true", "True"}

\* the fields of the request of init, for the environment of the invocation
ExpectedInitFields ==
    {"disallowLaunchedByUser", "notifyEligibleUsers"}
        \cup (IF Getenv("APPROVERS") # "" THEN {"approvers"} ELSE {})
        \cup (IF Getenv("INSTRUCTIONS") # "" THEN {"instructions"} ELSE {})
        \cup (IF Getenv("INPUTS") # "" THEN {"approvalInputs"} ELSE {})

\* APPROVERS split on its commas, for the values of the model: the order is
\* kept, nothing is trimmed, an empty or a repeated part stays
ExpectedApprovers ==
    CASE Getenv("APPROVERS") = "123,user@mail.com" ->
            JArr(<<JStr("123"), JStr("user@mail.com")>>)
      [] Getenv("APPROVERS") = " a,,a" -> JArr(<<JStr(" a"), JStr(""), JStr("a")>>)

\* C16: the body of the request of init holds disallowLaunchedByUser and
\* notifyEligibleUsers (the parsed flags, false by default), approvers iff
\* APPROVERS is non-empty (APPROVERS split on commas, in order, nothing removed
\* or trimmed), instructions iff INSTRUCTIONS is non-empty, approvalInputs iff
\* INPUTS is non-empty (the text unchanged), and no other field.
C16_InitRequestBody ==
    handler = "init" =>
        \A i \in 1..Len(requests) :
            LET b == requests[i].body IN
            /\ DOMAIN b = ExpectedInitFields
            /\ b["disallowLaunchedByUser"]
                  = JBool(Getenv("DISALLOW_LAUNCHED_BY_USER") \in TrueTexts)
            /\ b["notifyEligibleUsers"]
                  = JBool(Getenv("NOTIFY_ALL_ELIGIBLE_USERS") \in TrueTexts)
            /\ Getenv("APPROVERS") # "" => b["approvers"] = ExpectedApprovers
            /\ Getenv("INSTRUCTIONS") # "" =>
                  b["instructions"] = JStr(Getenv("INSTRUCTIONS"))
            /\ Getenv("INPUTS") # "" => b["approvalInputs"] = JStr(Getenv("INPUTS"))

C16_Witness ==
    /\ handler = "init" /\ Len(requests) = 1
    /\ Getenv("APPROVERS") = " a,,a"
    /\ Getenv("INSTRUCTIONS") = "" /\ Getenv("INPUTS") # ""
    /\ Getenv("NOTIFY_ALL_ELIGIBLE_USERS") = "T"
    /\ DOMAIN requests[1].body =
          {"disallowLaunchedByUser", "notifyEligibleUsers", "approvers", "approvalInputs"}
    /\ requests[1].body["approvers"].a = <<JStr(" a"), JStr(""), JStr("a")>>
    /\ requests[1].body["notifyEligibleUsers"] = JBool(TRUE)

-----------------------------------------------------------------------------
(* C17 *)

\* C17, as stated: when the interrupt signal arrives while the POST is in flight
\* the context is cancelled and the pending call is aborted: Client.Do gives no
\* HTTP response, post returns an error and so does the handler.
C17_AsStated ==
    /\ interruptedInFlight => ctx = "cancelled"
    /\ (interruptedInFlight /\ ~InFlight) =>
          /\ answers[1].neterr # ""
          /\ err # Nil
    /\ (interruptedInFlight /\ Done) => ret # Nil

\* the context was cancelled while the request of an init was in flight; the
\* handler waited for the 200 all the same and ended as if nothing had happened
C17_InterruptIgnored ==
    /\ handler = "init" /\ Done
    /\ ctx = "cancelled" /\ interruptedInFlight
    /\ Got200
    /\ statusFile = PendingRecord
    /\ ret = Nil

-----------------------------------------------------------------------------
(* C18 *)

\* C18: an invocation calls the HTTP client at most once on every path; after an
\* answer, failure or not, no further request is sent, and an invocation that
\* fails before post sends none.
C18_AtMostOneCall ==
    /\ Len(requests) <= 1
    /\ Len(answers) <= Len(requests)
    /\ \A i \in 1..Len(events) : events[i].kind = "post" =>
          \A j \in 1..Len(events) : events[j].kind = "post" => i = j
    /\ (Len(answers) = 1 /\ err # Nil) => ~InFlight /\ pc \notin PostPcs
    /\ ~Selected => requests = <<>>

C18_Witness ==
    /\ handler = "callback" /\ Done
    /\ Len(requests) = 1 /\ Len(answers) = 1
    /\ answers[1] = NetworkFailure
    /\ err = "dial tcp: connection refused"
    /\ ret = err

-----------------------------------------------------------------------------
(* C19 *)

\* a callback with nothing to put into the artifacts (no inputs, empty comments)
\* got a 200 for an APPROVED or REJECTED payload and has returned;
\* CLOUDBEES_OUTPUTS is unset, the status file is named
NothingToWrite ==
    /\ MappedAfter200 /\ Done
    /\ NoInputs /\ PayloadComments = ""
    /\ Getenv("CLOUDBEES_OUTPUTS") = ""
    /\ Getenv("CLOUDBEES_STATUS") # ""

\* C19, as stated: CLOUDBEES_OUTPUTS is required only when there is content to
\* write: a callback without inputs and with empty comments, APPROVED or REJECTED
\* after a 200, completes and writes its final record with CLOUDBEES_OUTPUTS unset.
C19_AsStated ==
    NothingToWrite =>
        /\ ret = Nil
        /\ EndedWithRecord({"APPROVED", "REJECTED"})

\* C19, amended: CLOUDBEES_OUTPUTS is required by every callback that gets a 200
\* for an APPROVED or REJECTED payload, whatever there is to write: with the
\* variable unset it returns "CLOUDBEES_OUTPUTS environment variable missing",
\* writes no artifact and no APPROVED or REJECTED record.
C19_OutputsRequired ==
    (MappedAfter200 /\ Done /\ Getenv("CLOUDBEES_OUTPUTS") = "") =>
        /\ ret = "CLOUDBEES_OUTPUTS environment variable missing"
        /\ outputs = NoOutputs
        /\ ~Wrote("approvalInputValues") /\ ~Wrote("comments")
        /\ \A i \in 1..Len(StatusWrites) :
              StatusWrites[i].content.status \notin {"APPROVED", "REJECTED"}

C19_Witness ==
    /\ NothingToWrite
    /\ PayloadStatus = Rejected
    /\ "inputs" \notin DOMAIN PAYLOAD.o
    /\ ret = "CLOUDBEES_OUTPUTS environment variable missing"
    /\ writes = <<>>

-----------------------------------------------------------------------------
(* C20 *)

\* the invocation has printed nothing, sent nothing and written nothing
NoEffect ==
    /\ out = <<>> /\ requests = <<>> /\ answers = <<>>
    /\ writes = <<>> /\ events = <<>>
    /\ statusFile = NoFile /\ outputs = NoOutputs

\* C20: Run with a handler other than init, callback and cancel, the empty one
\* included, returns "unsupported handler type: <value>" and prints, sends and
\* writes nothing; positional arguments are rejected with "unknown arguments:
\* [..]" before a handler is selected.
C20_UnsupportedHandler ==
    /\ (Len(args) = 0 /\ handler \notin {"init", "callback", "cancel"}) =>
          /\ NoEffect
          /\ pc \in {"run", "Run", "done"}
          /\ Done => /\ handler = "" => ret = "unsupported handler type: "
                     /\ handler = "something wrong" =>
                           ret = "unsupported handler type: something wrong"
    /\ Len(args) > 0 =>
          /\ NoEffect
          /\ pc \in {"run", "done"}
          /\ Done => /\ args = <<"wrong">> => ret = "unknown arguments: [wrong]"
                     /\ args = <<"a", "b">> => ret = "unknown arguments: [a b]"

C20_Witness ==
    /\ Done /\ Len(args) = 0
    /\ handler = ""
    /\ ret = "unsupported handler type: "
    /\ NoEffect

-----------------------------------------------------------------------------
(* C21 *)

\* callback was selected with a PAYLOAD that is unset or empty, or is no JSON text
BadPayload ==
    /\ handler = "callback" /\ Len(args) = 0
    /\ PAYLOAD = Unset \/ PAYLOAD = JInvalid

\* C21: a PAYLOAD that is missing (unset or empty) or is not valid JSON makes
\* callback fail before any side effect: no HTTP call is made, nothing is printed
\* through the output sink, neither the status file nor an output artifact is
\* written, and the invocation ends with the error of the missing variable or of
\* the JSON decoder.
C21_BadPayloadNoEffect ==
    BadPayload =>
        /\ requests = <<>> /\ answers = <<>>
        /\ out = <<>>
        /\ writes = <<>> /\ events = <<>>
        /\ statusFile = PriorStatusFile
        /\ outputs = NoOutputs
        /\ Done =>
              ret = (IF PAYLOAD = Unset THEN "PAYLOAD environment variable missing"
                     ELSE "invalid character 'o' in literal null (expecting 'u')")

C21_Witness ==
    /\ BadPayload /\ Done
    /\ PAYLOAD = JInvalid
    /\ Getenv("URL") # "" /\ Getenv("API_TOKEN") # ""
    /\ Getenv("CLOUDBEES_STATUS") # "" /\ Getenv("CLOUDBEES_OUTPUTS") # ""
    /\ ret = "invalid character 'o' in literal null (expecting 'u')"
    /\ statusFile = PendingRecord

-----------------------------------------------------------------------------
(* C22 *)

\* callback was selected with a PAYLOAD that parses as JSON
ParsesAsJson ==
    /\ handler = "callback" /\ Len(args) = 0
    /\ PAYLOAD # Unset /\ PAYLOAD # JInvalid

\* C22, as stated: every failure of a handler is reported as a returned error; for
\* every PAYLOAD that parses as JSON, also one where status, comments, respondedOn
\* or userName is absent or no string, where inputs is no list, or where an input
\* entry lacks a string name, callback returns nil or an error and never
\* terminates abnormally.
C22_AsStated ==
    /\ Done => ret # Panic
    /\ (ParsesAsJson /\ Done) => (ret = Nil \/ ret \notin {Running, Panic})

\* a payload without status: the type assertion on parsedPayload["status"] panics
\* before anything was sent, printed or written
C22_AssertionPanic ==
    /\ ParsesAsJson /\ Done
    /\ PAYLOAD = JObj([comments |-> JStr("lgtm"), userName |-> JStr("u"),
                       respondedOn |-> JStr("t")])
    /\ ret = Panic
    /\ requests = <<>> /\ out = <<>> /\ writes = <<>>

-----------------------------------------------------------------------------
(* C23 *)

\* the value is none of string, number and boolean: null, a list or an object
Unsupported(value) == value.t \notin {"string", "number", "bool"}

\* entry i of the inputs carries a value of no supported type
UnsupportedAt(i) == Unsupported(Lookup(GivenInputs[i].o, "value"))

\* a callback whose well-formed payload has an input of no supported type
HasUnsupported ==
    /\ handler = "callback" /\ Len(args) = 0
    /\ PAYLOAD \in Payloads
    /\ "inputs" \in DOMAIN PAYLOAD.o
    /\ PAYLOAD.o["inputs"].t = "array"
    /\ \E i \in 1..Len(GivenInputs) : UnsupportedAt(i)

\* C23: an input value that is neither string, number nor boolean (null, object or
\* list) is not an error: callback passes the parsing of the payload, sends the
\* literal "unsupported type" as the value of that input in the POST, keeps the
\* original value in the output map and in the approvalInputValues artifact, and,
\* after a 200 response for an APPROVED or REJECTED payload, ends with that record
\* and no error unless a write fails.
C23_UnsupportedValue ==
    HasUnsupported =>
        /\ ret # Panic
        /\ pc \notin {"run", "Run", "callback"} =>
              /\ (Done /\ requests = <<>>) => (BadEndpoint /\ ret \notin {Nil, Panic})
              /\ \A i \in 1..Len(GivenInputs) : UnsupportedAt(i) =>
                    /\ body["inputs"].a[i].o["value"] = JStr("unsupported type")
                    /\ \A r \in 1..Len(requests) :
                          requests[r].body["inputs"].a[i].o["value"]
                              = JStr("unsupported type")
                    /\ LastOfItsName(i) => ReadsBack(i)
        /\ (Done /\ Got200 /\ PayloadStatus \in {Approved, Rejected}) =>
              \/ /\ ret = Nil
                 /\ FinalRecordIs(IF PayloadStatus = Approved THEN "APPROVED"
                                  ELSE "REJECTED", SuccessMessage)
              \/ IsOutputWriteError(ret) \/ IsStatusWriteError(ret)

\* a list and an object among the inputs of an approved request
C23_Witness ==
    /\ HasUnsupported /\ Done
    /\ Len(GivenInputs) = 2
    /\ GivenInputs[1].o["value"] = JArr(<<JNum(1), JStr("x")>>)
    /\ GivenInputs[2].o["value"] = JObj(EmptyMap)
    /\ Len(requests) = 1
    /\ requests[1].body["inputs"].a[1].o["value"] = JStr("unsupported type")
    /\ requests[1].body["inputs"].a[2].o["value"] = JStr("unsupported type")
    /\ outputs["approvalInputValues"] = File("{\"n1\":[1,\"x\"],\"n2\":{}}")
    /\ FinalRecordIs("APPROVED", SuccessMessage)
    /\ ret = Nil

-----------------------------------------------------------------------------
(* Two invocations on the same inputs that differ in DEBUG *)

\* DEBUG unset, set to "true", and set to a text that is not "true"
DebugValues == {"", "true", "false"}

\* what an invocation did, as a later one finds it recorded
Outcome ==
    [DEBUG |-> Getenv("DEBUG"), requests |-> requests, answers |-> answers,
     ios |-> ios, out |-> out, statusFile |-> statusFile, outputs |-> outputs,
     writes |-> writes, ret |-> ret, diag |-> diag]

\* the status file as the invocation found it
StatusFileBefore ==
    IF handler \in {"callback", "cancel"} /\ args = <<>> THEN PriorStatusFile ELSE NoFile

\* the process is started once more on the same arguments, environment and
\* files, with another value of DEBUG
invokeAgain ==
    /\ pc = "done"
    /\ first = NoRun
    /\ first' = Outcome
    /\ \E d \in DebugValues \ {Getenv("DEBUG")} : env' = [env EXCEPT !["DEBUG"] = d]
    /\ pc' = "run"
    /\ ret' = Running
    /\ body' = EmptyMap
    /\ resp' = ""
    /\ err' = Nil
    /\ modifiedInputsParamForPost' = <<>>
    /\ outputsMap' = EmptyMap
    /\ jobStatus' = ""
    /\ out' = <<>>
    /\ requests' = <<>>
    /\ answers' = <<>>
    /\ statusFile' = StatusFileBefore
    /\ outputs' = NoOutputs
    /\ writes' = <<>>
    /\ events' = <<>>
    /\ ctx' = "active"
    /\ interruptedInFlight' = FALSE
    /\ diag' = <<>>
    /\ ios' = <<>>
    /\ UNCHANGED <<args, handler, PAYLOAD>>

\* the environment of the handler tests, with the directories of both writers
DebugEnv ==
    [EmptyEnv EXCEPT !["URL"] = "http://test.com/", !["API_TOKEN"] = "test",
                     !["CLOUDBEES_STATUS"] = "/tmp/test-status-out",
                     !["CLOUDBEES_OUTPUTS"] = "/tmp/test-outputs"]

\* an approval with two inputs, a status that is not mapped, a payload without
\* userName, a text that is no JSON, and no payload
DebugPayloads ==
    {JObj(("inputs" :> JArr(<<InputValue("n1", JBool(TRUE), JBool(TRUE)),
                               InputValue("n2", JNull, JStr("true"))>>))
            @@ PayloadFields(Approved, "lgtm")),
     JObj(PayloadFields("UPDATE_MANUAL_APPROVAL_STATUS_UNSPECIFIED", "")),
     JObj([status |-> JStr(Rejected), comments |-> JStr("lgtm"),
           respondedOn |-> JStr("t")]),
     JInvalid,
     Unset}

InitDebug ==
    /\ InitCommon
    /\ args = <<>>
    /\ \E d \in DebugValues :
         \/ /\ handler = "init"
            /\ PAYLOAD = Unset
            /\ \E n \in {"T", "not a boolean"} :
                 env = [DebugEnv EXCEPT !["DEBUG"] = d, !["NOTIFY_ALL_ELIGIBLE_USERS"] = n,
                                        !["APPROVERS"] = "123,user@mail.com",
                                        !["INSTRUCTIONS"] = "# t"]
            /\ statusFile = NoFile
         \/ /\ handler = "callback"
            /\ PAYLOAD \in DebugPayloads
            /\ \E o \in OutputsDirValues :
                 env = [DebugEnv EXCEPT !["DEBUG"] = d, !["CLOUDBEES_OUTPUTS"] = o]
            /\ statusFile = PriorStatusFile
         \/ /\ handler = "cancel"
            /\ PAYLOAD = Unset
            /\ \E u \in {"", "http://test.com/"}, r \in {"", "CANCELLED"} :
                 env = [DebugEnv EXCEPT !["DEBUG"] = d, !["URL"] = u,
                                        !["CANCELLATION_REASON"] = r]
            /\ statusFile = PriorStatusFile
         \/ /\ handler = "something wrong"
            /\ PAYLOAD = Unset
            /\ env = [DebugEnv EXCEPT !["DEBUG"] = d]
            /\ statusFile = NoFile

NextDebug == Next \/ invokeAgain

\* one invocation, and then a second one with another value of DEBUG
SpecDebug == InitDebug /\ [][NextDebug]_vars

-----------------------------------------------------------------------------
(* C24 *)

\* this is the second of two invocations, and Client.Do and os.WriteFile have
\* answered it as they answered the first
SameAnswers == first # NoRun /\ answers = first.answers /\ ios = first.ios

\* the invocation did what the first one did, diagnostics aside
SameAsFirst ==
    /\ requests = first.requests
    /\ out = first.out
    /\ statusFile = first.statusFile
    /\ outputs = first.outputs
    /\ writes = first.writes
    /\ ret = first.ret

\* C24: two invocations that differ only in the value of DEBUG, and get the same
\* answers from the HTTP client and the file system, produce the same outbound
\* requests, the same lines through the output sink, the same status file and
\* output artifacts, and the same returned error.  DEBUG changes only whether
\* diagnostic lines are emitted: none unless DEBUG is "true", and with "true" at
\* least one by every selected handler.
C24_DebugOnlyDiagnostics ==
    /\ first # NoRun => first.DEBUG # Getenv("DEBUG")
    /\ (SameAnswers /\ Done) => SameAsFirst
    /\ Getenv("DEBUG") # "true" => diag = <<>>
    /\ (Getenv("DEBUG") = "true" /\ Selected
            /\ pc \notin {"run", "Run", "init", "callback", "cancel"}) => diag # <<>>

\* an approval with DEBUG unset, and then the same approval with DEBUG=true
C24_Witness ==
    /\ SameAnswers /\ Done
    /\ handler = "callback"
    /\ first.DEBUG = "" /\ Getenv("DEBUG") = "true"
    /\ first.diag = <<>> /\ Len(diag) > 5
    /\ Len(requests) = 1 /\ Len(ios) = 3
    /\ statusFile = [status |-> "APPROVED", message |-> SuccessMessage]
    /\ ret = Nil

-----------------------------------------------------------------------------
(* C25 *)

HeaderLines == <<"\nInput Parameters:\n", "------------------\n">>

\* the line of the parameter block for entry i of the payload
ExpectedInputLine(i) ==
    LET ip == GivenInputs[i].o
        value == ReplaceNewlines(interfaceToString(Lookup(ip, "value")))
    IN  " " \o ip["name"].s \o ": " \o value
            \o (IF "is_default" \in DOMAIN ip /\ ip["is_default"] = JBool(TRUE)
                THEN " (default)" ELSE "")
            \o " \n"

\* the parameter block of the payload: nothing without inputs
ExpectedBlock ==
    IF NoInputs THEN <<>>
    ELSE HeaderLines \o [i \in 1..Len(GivenInputs) |-> ExpectedInputLine(i)]

\* a line of a parameter block was printed
BlockPrinted == \E i \in 1..Len(out) : out[i] \in {HeaderLines[1], HeaderLines[2]}

\* callback has passed the step that prints the parameter block
PastBlock ==
    /\ handler = "callback" /\ Len(args) = 0
    /\ \/ pc \in {"callback_outputs", "callback_status"}
       \/ Done /\ Got200 /\ PayloadStatus \in {Approved, Rejected}

\* C25, as stated: on APPROVED or REJECTED with a non-empty inputs list callback
\* prints the parameter block after the approval line and before any artifact is
\* written; with no inputs, and on every failure path, no parameter block is
\* printed.
C25_AsStated ==
    /\ PastBlock => out = <<approvalLine(PayloadStatus)>> \o ExpectedBlock
    /\ (Done /\ ret # Nil) => ~BlockPrinted

\* C25, amended: on APPROVED or REJECTED with a non-empty inputs list callback
\* prints, after the "Approved/Rejected by ..." line and before any artifact is
\* written, the two header lines and then one line per input in payload order of
\* the form " <name>: <value> ", the value string-coerced, every newline replaced
\* by "<br/>" and " (default)" appended exactly when is_default is the boolean
\* true.  No parameter block is printed with no inputs, nor on a failure path that
\* ends before the approval line (payload, POST, unexpected status); the block is
\* printed before the files are written, so an invocation that fails in writing an
\* output artifact or the status file has printed it.
C25_ParameterBlock ==
    /\ PastBlock =>
          /\ out = <<approvalLine(PayloadStatus)>> \o ExpectedBlock
          /\ Len(events) >= 2 + Len(ExpectedBlock)
          /\ events[1].kind = "post"
          /\ \A i \in 1..Len(out) : events[1 + i] = Ev("print", out[i])
          /\ \A i \in (2 + Len(out))..Len(events) : events[i].kind = "write"
          /\ pc = "callback_outputs" => writes = <<>>
    /\ BlockPrinted => (PastBlock /\ ~NoInputs)

\* an approval with two inputs, the first a default, whose first output artifact
\* cannot be written: the block was printed, the invocation failed
C25_Witness ==
    /\ PastBlock /\ Done
    /\ ~NoInputs
    /\ Len(GivenInputs) = 2
    /\ GivenInputs[1] = InputValue("n1", JBool(TRUE), JBool(TRUE))
    /\ GivenInputs[2] = InputValue("n2", JNull, JStr("true"))
    /\ out[4] = " n1: true (default) \n"
    /\ out[5] = " n2: unsupported type \n"
    /\ writes = <<>>
    /\ IsOutputWriteError(ret)

-----------------------------------------------------------------------------
(* C26 *)

\* Client.Do itself has failed: no response, the error of the client
NetFailed == Len(answers) = 1 /\ answers[1].neterr # ""

\* the handler went the failure path of post: the two ERROR lines last, then the
\* FAILED record of init and callback, none of cancel, and the error returned
FailurePath ==
    /\ Len(out) >= 2
    /\ out[Len(out) - 1] = "ERROR: API call failed with error: '" \o err \o "'\n"
    /\ out[Len(out)] = "ERROR: API response: '" \o resp \o "'\n"
    /\ handler = "cancel" => (StatusWrites = <<>> /\ ret = err)
    /\ handler \in {"init", "callback"} => RecordedOrWriteError(err)

\* C26: the HTTP helper returns the response body with no error only when the
\* status code is exactly 200; for every other status code, other 2xx codes
\* included, it returns the response body together with an error naming POST, the
\* request URL and the status line; when the client itself fails it returns an
\* empty body and the error of the client; the calling handler takes the same
\* failure path for both kinds.
C26_PostResult ==
    /\ Got200 => (resp = answers[1].body /\ err = Nil)
    /\ Non200 =>
          /\ resp = answers[1].body
          /\ err = "failed to send event: \nPOST " \o requests[1].url \o "\nHTTP/"
                      \o FormatInt(answers[1].code) \o " " \o answers[1].status \o "\n"
    /\ NetFailed => (resp = "" /\ err = answers[1].neterr)
    /\ (err = Nil /\ Len(requests) = 1 /\ pc \notin PostPcs) => Got200
    /\ (Done /\ (Non200 \/ NetFailed)) => FailurePath

\* a 201 answer to init: the body is returned with the error, FAILED is recorded
C26_Witness ==
    /\ Done /\ Non200 /\ handler = "init"
    /\ answers[1].code = 201
    /\ resp = ApproversBody
    /\ err = "failed to send event: \nPOST http://test.com/v1/workflows/approval\n"
                \o "HTTP/201 201 Created\n"
    /\ FailurePath
    /\ ret = err

-----------------------------------------------------------------------------
(* C27 *)

\* callback has handed a request to the HTTP client
CallbackSent == handler = "callback" /\ Len(args) = 0 /\ Len(requests) = 1

\* entry i of the sent inputs is entry i of the payload but for its value
SameButValue(sent, given) ==
    /\ sent.t = "object"
    /\ DOMAIN sent.o = DOMAIN given.o \cup {"value"}
    /\ \A k \in DOMAIN given.o \ {"value"} : sent.o[k] = given.o[k]

\* C27: the body POSTed by callback equals the parsed PAYLOAD except for the value
\* of each input: every other top-level field (also one the handler does not read,
\* such as userId), the number and order of the inputs, and the name and
\* is_default of each input are sent unchanged; with inputs absent, null or empty
\* the body equals the parsed PAYLOAD.
C27_PostedBody ==
    CallbackSent =>
        LET sent == requests[1].body IN
        /\ DOMAIN sent = DOMAIN PAYLOAD.o
        /\ \A k \in DOMAIN sent \ {"inputs"} : sent[k] = PAYLOAD.o[k]
        /\ sent["userId"] = JStr("123")
        /\ NoInputs => sent = PAYLOAD.o
        /\ ~NoInputs =>
              /\ sent["inputs"].t = "array"
              /\ Len(sent["inputs"].a) = Len(GivenInputs)
              /\ \A i \in 1..Len(GivenInputs) :
                    /\ SameButValue(sent["inputs"].a[i], GivenInputs[i])
                    /\ sent["inputs"].a[i].o["name"] = GivenInputs[i].o["name"]
                    /\ sent["inputs"].a[i].o["is_default"]
                          = GivenInputs[i].o["is_default"]

\* two inputs of one name, sent in the order of the payload
C27_Witness ==
    /\ CallbackSent /\ ~NoInputs
    /\ GivenInputs = <<InputValue("n1", JStr("a\nb"), JBool(FALSE)),
                       InputValue("n1", JBool(TRUE), JBool(TRUE))>>
    /\ requests[1].body["inputs"].a
          = <<InputValue("n1", JStr("a\nb"), JBool(FALSE)),
              InputValue("n1", JStr("true"), JBool(TRUE))>>
    /\ requests[1].body["userId"] = JStr("123")

\* a payload whose inputs are null is sent as it is
C27_NullInputs ==
    /\ CallbackSent
    /\ "inputs" \in DOMAIN PAYLOAD.o /\ PAYLOAD.o["inputs"] = JNull
    /\ requests[1].body = PAYLOAD.o

-----------------------------------------------------------------------------
(* C28 *)

\* the place of an event in the order of callback's steps
KindRank(e) ==
    CASE e.kind = "post" -> 1
      [] e.kind = "print" -> 2
      [] e = Ev("write", "approvalInputValues") -> 3
      [] e = Ev("write", "comments") -> 4
      [] e = Ev("write", "status") -> 5

\* the request, then the prints, then the files, each file at most once
StepsInOrder ==
    /\ \A i \in 1..Len(events) : \A j \in (i + 1)..Len(events) :
          /\ KindRank(events[i]) <= KindRank(events[j])
          /\ events[i].kind # "print" => KindRank(events[i]) < KindRank(events[j])
    /\ requests # <<>> => events[1].kind = "post"

\* the approval line is among the printed lines
ApprovalLinePrinted ==
    \E i \in 1..Len(out) : StartsWith(out[i], "Approved by ") \/ StartsWith(out[i], "Rejected by ")

\* C28: in callback the steps run in the order POST, status mapping and approval
\* line, input-parameter block, approvalInputValues write, comments write, status
\* write, and each step runs only if every earlier one succeeded: an APPROVED or
\* REJECTED record implies a 200 response to the POST and both artifacts written
\* before it by this invocation, and a failed approvalInputValues write leaves
\* comments and the status file unwritten.
C28_StepOrder ==
    (handler = "callback" /\ Len(args) = 0) =>
        /\ StepsInOrder
        /\ ApprovalLinePrinted =>
              /\ Got200 /\ PayloadStatus \in {Approved, Rejected}
              /\ out[1] = approvalLine(PayloadStatus)
              /\ events[1].kind = "post"
              /\ events[2] = Ev("print", out[1])
        /\ BlockPrinted => ApprovalLinePrinted
        /\ (Wrote("approvalInputValues") \/ Wrote("comments")) =>
              /\ ApprovalLinePrinted
              /\ out = <<approvalLine(PayloadStatus)>> \o ExpectedBlock
        /\ Wrote("comments") => Wrote("approvalInputValues")
        /\ EndedMapped =>
              /\ Got200
              /\ WrittenFiles = <<"approvalInputValues", "comments", "status">>
              /\ outputs["approvalInputValues"] # NoFile
              /\ outputs["comments"] # NoFile
        /\ (Done /\ Got200 /\ PayloadStatus \in {Approved, Rejected}
                /\ ~Wrote("approvalInputValues")) =>
              /\ writes = <<>>
              /\ outputs = NoOutputs
              /\ statusFile = PriorStatusFile
              /\ IsOutputWriteError(ret)
        /\ (Done /\ Wrote("approvalInputValues") /\ ~Wrote("comments")) =>
              /\ WrittenFiles = <<"approvalInputValues">>
              /\ statusFile = PriorStatusFile
              /\ IsOutputWriteError(ret)

\* the approvalInputValues file could not be written: nothing else was
C28_Witness ==
    /\ handler = "callback" /\ Done /\ Got200
    /\ Getenv("CLOUDBEES_OUTPUTS") # "" /\ Getenv("CLOUDBEES_STATUS") # ""
    /\ ios = <<"permission denied">>
    /\ ApprovalLinePrinted
    /\ writes = <<>>
    /\ statusFile = PendingRecord
    /\ ret = "failed to write to /tmp/test-outputs/approvalInputValues: "
                \o "open /tmp/test-outputs/approvalInputValues: permission denied"

-----------------------------------------------------------------------------
(* C29 *)

\* C29: every invocation of init or callback writes the status file at most once:
\* a status write is the last thing the invocation does, so that a FAILED record
\* is never followed by another status write and a PENDING_APPROVAL, APPROVED or
\* REJECTED record is never preceded by one; at most one write of the status file
\* is attempted.
C29_StatusWrittenOnce ==
    /\ Len(StatusWrites) <= 1
    /\ StatusWrites # <<>> =>
          /\ handler \in {"init", "callback"}
          /\ Done
          /\ writes[Len(writes)] = StatusWrites[1]
          /\ events[Len(events)] = Ev("write", "status")
          /\ statusFile = StatusWrites[1].content
          /\ StatusWrites[1].content.status
                \in {"FAILED", "PENDING_APPROVAL", "APPROVED", "REJECTED"}
    /\ handler = "init" => Len(ios) <= 1
    /\ handler = "callback" => Len(ios) <= 3
    /\ (handler = "callback" /\ Len(ios) = 3) => EndedMapped \/ IsStatusWriteError(ret)

\* a callback whose POST failed has written FAILED and nothing else
C29_Witness ==
    /\ handler = "callback" /\ Done
    /\ NetFailed
    /\ Len(StatusWrites) = 1
    /\ StatusWrites[1].content.status = "FAILED"
    /\ writes = StatusWrites
    /\ ios = <<Nil>>

-----------------------------------------------------------------------------
(* C30 *)

\* the invocation has written a status record of one of the statuses
WroteStatus(statuses) ==
    \E i \in 1..Len(StatusWrites) : StatusWrites[i].content.status \in statuses

\* C30: the returned result agrees with the status record: init returns nil if and
\* only if it wrote PENDING_APPROVAL, callback returns nil if and only if it wrote
\* APPROVED or REJECTED, and whenever either handler writes FAILED it returns a
\* non-nil error.
C30_ResultAgreesWithRecord ==
    /\ (Done /\ handler = "init") =>
          /\ ret = Nil <=> WroteStatus({"PENDING_APPROVAL"})
          /\ ret = Nil => statusFile = PendingRecord
    /\ (Done /\ handler = "callback") =>
          /\ ret = Nil <=> WroteStatus({"APPROVED", "REJECTED"})
          /\ ret = Nil => statusFile.status \in {"APPROVED", "REJECTED"}
    /\ ~Done => ~WroteStatus({"PENDING_APPROVAL", "APPROVED", "REJECTED", "FAILED"})
    /\ WroteStatus({"FAILED"}) =>
          /\ handler \in {"init", "callback"}
          /\ Done
          /\ ret \notin {Nil, Running, Panic}

\* the last status write of an approval fails: no record, and an error
C30_Witness ==
    /\ Done /\ handler = "callback" /\ Got200
    /\ Len(ios) = 3 /\ ios[3] = "permission denied"
    /\ WrittenFiles = <<"approvalInputValues", "comments">>
    /\ statusFile = PendingRecord
    /\ IsStatusWriteError(ret)

=============================================================================
